---- MODULE Spec2Model ----
(***************************************************************************)
(* TailscaleDrive: the desktop Status/Sync HTTP service (src/src/status.rs), *)
(* the mobile client's background poll loop and its foreground              *)
(* (src/TailscaleDrive/rust/src/tailscale_client.rs, renderer.rs), and the  *)
(* desktop's watcher of tailscaled's notification bus (src/src/files.rs).    *)
(*                                                                          *)
(* Time stamps are unix seconds read from a wall clock: a file write or a   *)
(* project creation takes whatever value the writer's clock shows, so the   *)
(* model draws it from Times.                                               *)
(*                                                                          *)
(* Specifications:                                                          *)
(*   Spec         the service under the requests of any client              *)
(*   SpecPersist  the service on a disk whose writes can fail               *)
(*   SpecCmd      poll_loop serving every command of the foreground         *)
(*   SpecSync     poll_loop reconciling projects while both users edit      *)
(*   SpecLoop     one poll_loop from its start to its return                *)
(*   SpecStatus   the status fields and peers the foreground shows         *)
(*   SpecPeers    the foreground's peer list over polls, cache, reconnects  *)
(*   SpecNotify   the renderer's notification queue over polls              *)
(*   FairPeers    SpecPeers with every poll_loop thread scheduled           *)
(*   SpecQueue    the notifications of a foreground whose frames are rare   *)
(*   SpecTick     the two passes of a tick over two projects                *)
(*   SpecSend     the desktop's sent-file slot and what the renderer makes  *)
(*                of it; FairSend: every send_file call returns             *)
(*   SpecLocks    the service's handlers step by step, requests interleaved *)
(*   SpecBytes    the bytes of the desktop's files under uploads and pulls  *)
(*   SpecWatch    watch_files over the chunks of the notification stream    *)
(*   SpecConflict the ticks after both files of a project were modified     *)
(*   SpecIds      the ticks over projects as the service creates them       *)
(*   SpecQuiet    poll_loop alone after one desktop edit, nothing failing;  *)
(*                FairQuiet: the loop keeps running                         *)
(*   SpecSecond   the client after the desktop's received file changed from *)
(*                one name to another                                       *)
(***************************************************************************)
EXTENDS Integers, Sequences, FiniteSets, TLC

\* ---------------------------------------------------------------- bounds
MaxTime == 2
MaxProjects == 2
\* Projects the table holds in the specification of the mobile client.
MaxTracked == 1
\* Notifications the renderer's queue holds, clients a renderer replaces.
MaxPending == 2
MaxReconnects == 1
\* Events a foreground with rare frames leaves unreceived.
MaxBehind == 1

Times == 0..MaxTime
Ids == {"a", "b"}
DesktopPaths == {"d1"}
MobilePaths == {"m1"}

VARIABLES
    sync_projects,   \* AppState.sync_projects: the in-memory table (a Vec)
    stored,          \* the table held in sync_projects.json
    dfiles,          \* desktop filesystem: path -> mtime, for the files that exist
    dbytes,          \* desktop filesystem: path -> bytes, for the files whose bytes are followed
    disk_faulty,     \* whether writes to the configuration directory can fail
    handlers,        \* the requests the service is handling: position and locks held
    resp,            \* the request the service handled last and its response
    mfiles,          \* mobile filesystem: path -> mtime, for the files that exist
    events,          \* event channel: sent by poll_loop, not yet received
    pc,              \* poll_loop's position
    poll_due,        \* last_poll was set back by a whole poll_interval
    changes,         \* pull pass: the reported changes still to visit
    projects,        \* push pass: the fetched projects still to visit
    failed,          \* reported changes whose latest pull failed
    alive,           \* the TailscaleClient (event receiver, command sender) exists
    behind,          \* events the foreground may leave unreceived while poll_loop goes on
    op,              \* what poll_loop's latest step did
    app,             \* AppState.last_sent, .received.last_file and .peers
    client,          \* the TailscaleClient's fields the foreground shows
    renderer,        \* the Renderer's notification queue and what it saw last
    cached_peers,    \* the peer list held in cached_peers.json
    old_tasks,       \* the poll_loops of replaced clients: where each one is
    call,            \* the notification call the host made last and its result
    watcher          \* watch_files: the bytes that arrived, its buffer, the events it sent

svars == <<sync_projects, stored, dfiles, dbytes, disk_faulty, handlers, resp>>
\* The client's variables other than op.
cvars == <<mfiles, events, pc, poll_due, changes, projects, failed, alive, behind>>
lvars == <<mfiles, events, pc, poll_due, changes, projects, failed, alive, behind, op>>
\* The status tables of the service and the foreground of the mobile client.
fvars == <<app, client, renderer, cached_peers, old_tasks, call, watcher>>
vars == <<sync_projects, stored, dfiles, dbytes, disk_faulty, handlers, resp,
          mfiles, events, pc, poll_due, changes, projects, failed, alive, behind, op,
          app, client, renderer, cached_peers, old_tasks, call, watcher>>

\* ------------------------------------------------------------ data model
\* Option<T>
None == << >>
Some(x) == <<x>>

SyncProject(id, lp, rp, ls, p) ==
    [id |-> id, local_path |-> lp, remote_path |-> rp, last_synced |-> ls, paused |-> p]

SyncChangeResponse(project, modified) ==
    [id |-> project.id, remote_path |-> project.remote_path,
     local_path |-> project.local_path, new_modified |-> modified]

\* The (local_path, remote_path) bodies of POST /sync/projects.
CreateSyncProjectRequest ==
    {[local_path |-> "d1", remote_path |-> "m1"]}

\* What sync_projects.json may hold when the service first starts: nothing, or
\* a table of an earlier run with a paused project (no endpoint sets paused).
InitialStored ==
    {<< >>, <<SyncProject("a", "d1", "m1", 0, TRUE)>>}

\* ----------------------------------------------------------- persistence
\* load_sync_projects: the stored table (empty when the file is missing or
\* does not parse).
load_sync_projects(file) == file

\* save_sync_projects ignores every error of create_dir_all and fs::write.
\* On a healthy disk the file ends holding the new table. When the write can
\* fail the file may also stay as it was (it could not be opened) or be left
\* truncated (the write failed part-way), which load_sync_projects reads as
\* an empty table.
save_sync_projects(file, table, faulty) ==
    IF faulty THEN {table, file, << >>} ELSE {table}

\* The action part of a save: the file's next content.
Save(table) ==
    /\ stored' \in save_sync_projects(stored, table, disk_faulty)
    /\ UNCHANGED <<disk_faulty, handlers>>

\* ----------------------------------------------------------- filesystem
\* fs::write(path, data) at clock value now: the file exists with that mtime.
Write(files, path, now) ==
    [p \in DOMAIN files \cup {path} |-> IF p = path THEN now ELSE files[p]]

Remove(files, path) == [p \in DOMAIN files \ {path} |-> files[p]]

\* The bodies of the uploads whose bytes the model follows, and the value
\* that stands for all other bytes: what users and the mobile client write.
Bodies == {<< >>, <<1>>, <<1, 2>>}
OtherBytes == <<0>>

\* fs::write(path, body): the file is created or truncated, then holds body.
\* dbytes lists the files that hold bytes the model follows.
WriteBytes(bytes, path, body) ==
    IF body = OtherBytes THEN Remove(bytes, path)
    ELSE [p \in DOMAIN bytes \cup {path} |-> IF p = path THEN body ELSE bytes[p]]

\* The file at path is written with bytes the model does not follow.
Untracked(bytes, path) == WriteBytes(bytes, path, OtherBytes)

\* fs::write that fails after the file was opened: a part of body is written.
Truncated(bytes, path, body) ==
    IF body = OtherBytes THEN {Untracked(bytes, path)}
    ELSE {WriteBytes(bytes, path, SubSeq(body, 1, k)) :
            k \in 0..(IF body = << >> THEN 0 ELSE Len(body) - 1)}

\* A stream that ends after the file's first byte.
ReadBytesHead(bytes, path) ==
    IF path \notin DOMAIN bytes THEN OtherBytes
    ELSE IF bytes[path] = << >> THEN << >> ELSE <<Head(bytes[path])>>

\* ReaderStream::new(file): the file's bytes from its start to its end.
ReadBytes(bytes, path) == IF path \in DOMAIN bytes THEN bytes[path] ELSE OtherBytes

\* ------------------------------------------------------------ watch_files
\* The bytes of the watch-ipn-bus stream: "n" is the line feed, "j" a byte of
\* a notification's JSON text, "x" a byte no JSON text has at its place, "h"
\* and "t" the first and the second byte of a two-byte UTF-8 character.
\* After decoding, "c" is that character and "?" is U+FFFD.
MaxStream == 6
MaxChunk == 3
Bytes == {"n", "j", "x", "h", "t"}
Chunks == UNION {[1..k -> Bytes] : k \in 1..MaxChunk}

\* String::from_utf8_lossy: every byte that is not part of a complete
\* character becomes U+FFFD.
RECURSIVE from_utf8_lossy(_)
from_utf8_lossy(bytes) ==
    IF bytes = << >> THEN << >>
    ELSE IF Head(bytes) = "h" /\ Len(bytes) >= 2 /\ bytes[2] = "t"
         THEN <<"c">> \o from_utf8_lossy(Tail(Tail(bytes)))
    ELSE IF Head(bytes) \in {"h", "t"}
         THEN <<"?">> \o from_utf8_lossy(Tail(bytes))
    ELSE <<Head(bytes)>> \o from_utf8_lossy(Tail(bytes))

\* buffer.find('\n'): the position of the first line feed, 0 if none.
Find(buffer) ==
    IF \E i \in DOMAIN buffer : buffer[i] = "n"
    THEN CHOOSE i \in DOMAIN buffer :
            /\ buffer[i] = "n"
            /\ \A j \in 1..(i - 1) : buffer[j] # "n"
    ELSE 0

\* serde_json::from_str::<IpnBusNotification>(line) is Ok: U+FFFD and "c"
\* may stand inside a JSON string, "x" stands nowhere.
Parses(line) == \A i \in DOMAIN line : line[i] # "x"

\* What a parsed line makes watch_files send: the events of the files it
\* names, here one event that carries the line's text.
FileReceived(line) == [type |-> "FileReceived", name |-> line]

\* The inner loop: take the text before the first line feed, drop it and the
\* line feed from the buffer, skip it if it is empty or does not parse.
RECURSIVE TakeLines(_, _)
TakeLines(buffer, sent) ==
    LET pos == Find(buffer) IN
    IF pos = 0 THEN [buffer |-> buffer, sent |-> sent]
    ELSE LET line == SubSeq(buffer, 1, pos - 1)
             rest == SubSeq(buffer, pos + 1, Len(buffer))
         IN IF line = << >> THEN TakeLines(rest, sent)
            ELSE IF Parses(line) THEN TakeLines(rest, Append(sent, FileReceived(line)))
            ELSE TakeLines(rest, sent)

Watch(arrived, buffer, sent, running) ==
    [arrived |-> arrived, buffer |-> buffer, sent |-> sent, running |-> running]
NoWatch == Watch(<< >>, << >>, << >>, TRUE)

\* One frame of the body stream: the chunk is decoded by itself, appended to
\* the buffer, and the complete lines are taken.
WatchFrame ==
    /\ watcher.running
    /\ \E chunk \in Chunks :
        /\ Len(watcher.arrived) + Len(chunk) <= MaxStream
        /\ LET text == from_utf8_lossy(chunk)
               taken == TakeLines(watcher.buffer \o text, watcher.sent)
           IN watcher' = Watch(watcher.arrived \o chunk, taken.buffer, taken.sent, TRUE)
    /\ UNCHANGED <<svars, lvars, app, client, renderer, cached_peers, old_tasks, call>>

\* The stream ends or a frame is an error: watch_files returns.
WatchEnds ==
    /\ watcher.running
    /\ watcher' = [watcher EXCEPT !.running = FALSE]
    /\ UNCHANGED <<svars, lvars, app, client, renderer, cached_peers, old_tasks, call>>

\* ------------------------------------------------------- handler bodies
\* table.iter_mut().find(|p| p.id == id): the first index holding id, 0 if none.
FindProject(table, id) ==
    IF \E i \in DOMAIN table : table[i].id = id
    THEN CHOOSE i \in DOMAIN table :
            /\ table[i].id = id
            /\ \A j \in DOMAIN table : table[j].id = id => i <= j
    ELSE 0

\* A sync_ack that adds the timestamp to the watermark instead of storing it.
AckTableAdding(table, id, timestamp) ==
    LET i == FindProject(table, id)
        sum == table[i].last_synced + timestamp
    IN IF i = 0 THEN table
       ELSE [table EXCEPT ![i].last_synced = IF sum > MaxTime THEN MaxTime ELSE sum]

\* A sync_ack that stores the timestamp in every project.
AckTableAll(table, id, timestamp) ==
    [i \in DOMAIN table |-> [table[i] EXCEPT !.last_synced = timestamp]]

\* sync_ack's mutation: project.last_synced = body.timestamp.
AckTable(table, id, timestamp) ==
    LET i == FindProject(table, id)
    IN IF i = 0 THEN table
       ELSE [table EXCEPT ![i].last_synced = timestamp]

\* A retain that drops the first project when none has the id.
RetainOthersOrFirst(table, id) ==
    LET Keep(p) == p.id # id
        kept == SelectSeq(table, Keep)
    IN IF kept = table /\ table # << >> THEN Tail(table) ELSE kept

\* table.retain(|p| p.id != id)
RetainOthers(table, id) ==
    LET Keep(p) == p.id # id IN SelectSeq(table, Keep)

\* sync_check's loop over the table, from index i on.
RECURSIVE SyncCheckFrom(_, _, _)
SyncCheckFrom(table, files, i) ==
    IF i > Len(table) THEN << >>
    ELSE LET project == table[i]
             rest == SyncCheckFrom(table, files, i + 1)
         IN IF project.paused THEN rest
            ELSE IF project.local_path \notin DOMAIN files THEN rest
            ELSE IF files[project.local_path] > project.last_synced
                 THEN <<SyncChangeResponse(project, files[project.local_path])>> \o rest
                 ELSE rest

\* A sync_check that compares with >= instead of >.
RECURSIVE SyncCheckFromGe(_, _, _)
SyncCheckFromGe(table, files, i) ==
    IF i > Len(table) THEN << >>
    ELSE LET project == table[i]
             rest == SyncCheckFromGe(table, files, i + 1)
         IN IF project.paused THEN rest
            ELSE IF project.local_path \notin DOMAIN files THEN rest
            ELSE IF files[project.local_path] >= project.last_synced
                 THEN <<SyncChangeResponse(project, files[project.local_path])>> \o rest
                 ELSE rest

SyncCheckBodyGe(table, files) == SyncCheckFromGe(table, files, 1)

\* A sync_check that does not skip paused table.
RECURSIVE SyncCheckFromPaused(_, _, _)
SyncCheckFromPaused(table, files, i) ==
    IF i > Len(table) THEN << >>
    ELSE LET project == table[i]
             rest == SyncCheckFromPaused(table, files, i + 1)
         IN IF project.local_path \notin DOMAIN files THEN rest
            ELSE IF files[project.local_path] > project.last_synced
                 THEN <<SyncChangeResponse(project, files[project.local_path])>> \o rest
                 ELSE rest

SyncCheckBodyPaused(table, files) == SyncCheckFromPaused(table, files, 1)

SyncCheckBody(table, files) == SyncCheckFrom(table, files, 1)

NoResp == [op |-> "none", status |-> 0, id |-> "", ts |-> 0, body |-> << >>]
Resp(request, status, id, ts, body) ==
    [op |-> request, status |-> status, id |-> id, ts |-> ts, body |-> body]

\* ------------------------------------------------------------- handlers
\* POST /sync/projects
sync_create_project ==
    /\ Len(sync_projects) < MaxProjects
    /\ \E body \in CreateSyncProjectRequest, id \in Ids, now \in Times :
         LET project == SyncProject(id, body.local_path, body.remote_path, now, FALSE)
             table == Append(sync_projects, project)
         IN /\ sync_projects' = table
            /\ Save(table)
            /\ resp' = Resp("create", 200, id, now, <<project>>)
    /\ UNCHANGED <<dfiles, dbytes, lvars>>
    /\ UNCHANGED fvars

\* DELETE /sync/projects/{id}
sync_delete_project ==
    /\ \E id \in Ids :
        LET table == RetainOthers(sync_projects, id)
        IN IF Len(table) = Len(sync_projects)
           THEN /\ resp' = Resp("delete", 404, id, 0, << >>)
                /\ UNCHANGED <<sync_projects, stored, disk_faulty, handlers>>
           ELSE /\ sync_projects' = table
                /\ Save(table)
                /\ resp' = Resp("delete", 200, id, 0, << >>)
    /\ UNCHANGED <<dfiles, dbytes, lvars>>
    /\ UNCHANGED fvars

\* GET /sync/projects
sync_list_projects ==
    /\ resp' = Resp("list", 200, "", 0, sync_projects)
    /\ UNCHANGED <<sync_projects, stored, disk_faulty, handlers, dfiles, dbytes, lvars>>
    /\ UNCHANGED fvars

\* A sync_check that advances the watermark of every change it reports.
RECURSIVE AckAll(_, _)
AckAll(table, reported) ==
    IF reported = << >> THEN table
    ELSE AckAll(AckTable(table, Head(reported).id, Head(reported).new_modified),
                Tail(reported))

sync_check_advancing ==
    /\ resp' = Resp("check", 200, "", 0, SyncCheckBody(sync_projects, dfiles))
    /\ sync_projects' = AckAll(sync_projects, SyncCheckBody(sync_projects, dfiles))
    /\ stored' = sync_projects'
    /\ UNCHANGED <<disk_faulty, handlers, dfiles, dbytes, lvars>>
    /\ UNCHANGED fvars

\* GET /sync/check
sync_check ==
    /\ resp' = Resp("check", 200, "", 0, SyncCheckBody(sync_projects, dfiles))
    /\ UNCHANGED <<sync_projects, stored, disk_faulty, handlers, dfiles, dbytes, lvars>>
    /\ UNCHANGED fvars

\* POST /sync/ack
sync_ack ==
    /\ \E id \in Ids, timestamp \in Times :
        IF FindProject(sync_projects, id) # 0
        THEN LET table == AckTable(sync_projects, id, timestamp)
             IN /\ sync_projects' = table
                /\ Save(table)
                /\ resp' = Resp("ack", 200, id, timestamp, << >>)
        ELSE /\ resp' = Resp("ack", 404, id, timestamp, << >>)
             /\ UNCHANGED <<sync_projects, stored, disk_faulty, handlers>>
    /\ UNCHANGED <<dfiles, dbytes, lvars>>
    /\ UNCHANGED fvars

\* PUT /sync/upload?path=: create_dir_all, then fs::write(dest, body). A
\* failed write answers 500 and leaves the file as it was or already
\* truncated (touched). resp keeps the request's body.
SyncUpload(bodies) ==
    /\ \E path \in DesktopPaths, now \in Times, body \in bodies :
        \/ /\ dfiles' = Write(dfiles, path, now)
           /\ dbytes' = WriteBytes(dbytes, path, body)
           /\ resp' = Resp("upload", 200, path, now, body)
        \/ /\ \/ UNCHANGED <<dfiles, dbytes>>
              \/ /\ dfiles' = Write(dfiles, path, now)
                 /\ dbytes' \in Truncated(dbytes, path, body)
           /\ resp' = Resp("upload", 500, path, now, body)
    /\ UNCHANGED <<sync_projects, stored, disk_faulty, handlers, lvars>>
    /\ UNCHANGED fvars

sync_upload_handler == SyncUpload({OtherBytes})
sync_upload_bodies == SyncUpload(Bodies)

\* GET /pull?path=: 404 unless the path is an existing regular file, else
\* 200 with the file streamed as the body.
pull_file_handler ==
    /\ \E path \in DesktopPaths :
        resp' = IF path \in DOMAIN dfiles
                THEN Resp("pull", 200, path, 0, ReadBytes(dbytes, path))
                ELSE Resp("pull", 404, path, 0, << >>)
    /\ UNCHANGED <<sync_projects, stored, disk_faulty, handlers, dfiles, dbytes, lvars>>
    /\ UNCHANGED fvars

\* The service process starts again: new_app_state reloads the table.
NewAppState == [last_sent |-> None, last_file |-> None, peers |-> << >>, tasks |-> {}]

new_app_state ==
    /\ sync_projects' = load_sync_projects(stored)
    /\ resp' = Resp("start", 0, "", 0, << >>)
    /\ app' = NewAppState
    /\ UNCHANGED <<stored, disk_faulty, handlers, dfiles, dbytes, lvars>>
    /\ UNCHANGED <<client, renderer, cached_peers, old_tasks, call, watcher>>

\* ------------------------------------------------------- mobile client
ClientCmd(type, local_path, remote_path, id, timestamp) ==
    [type |-> type, local_path |-> local_path, remote_path |-> remote_path,
     id |-> id, timestamp |-> timestamp]

\* The values of enum ClientCommand the command channel can carry.
ClientCommand ==
    {ClientCmd(t, "", "", "", 0) :
        t \in {"DownloadFile", "DownloadLast", "Browse", "Refresh",
               "FetchSyncProjects", "CheckSyncChanges"}}
    \cup {ClientCmd("PullFile", "", d, "", 0) : d \in DesktopPaths}
    \cup {ClientCmd("UploadFile", m, d, "", 0) : m \in MobilePaths, d \in DesktopPaths}
    \cup {ClientCmd("CreateSyncProject", m, d, "", 0) : m \in MobilePaths, d \in DesktopPaths}
    \cup {ClientCmd("DeleteSyncProject", "", "", id, 0) : id \in Ids}
    \cup {ClientCmd("AckSync", "", "", id, ts) : id \in Ids, ts \in Times}

CommandsOf(type) == {cmd \in ClientCommand : cmd.type = type}

\* A ClientEvent, by its variant and what it carries.
ClientEvent(type, arg) == [type |-> type, arg |-> arg]

\* Names of the files the desktop receives and sends, and the peer lists the
\* desktop's tailscale daemon reports (self left out).
FileNames == {"f1", "f2"}
SentNames == {"s1"}
EitherSentNames == {"s1", "s2"}
PeerInfo(id, online) == [id |-> id, online |-> online]
TailnetPeers ==
    {<< >>,
     <<PeerInfo("p1", TRUE)>>,
     <<PeerInfo("p1", TRUE), PeerInfo("p2", FALSE)>>}

SentFileInfo(name, succeeded, sending) ==
    [name |-> name, succeeded |-> succeeded, sending |-> sending]

\* What a StatusUpdate carries (server_cwd left out).
StatusUpdate(connected, last_sent, last_received_file) ==
    [connected |-> connected, last_sent |-> last_sent,
     last_received_file |-> last_received_file]

\* http_fetch_status against status_handler, and what poll_loop sends for
\* its result: the tables' values on Ok, nothing but connected = false on Err.
StatusEvent(ok) ==
    ClientEvent("StatusUpdate",
                IF ok THEN StatusUpdate(TRUE, app.last_sent, app.last_file)
                ELSE StatusUpdate(FALSE, None, None))

NoArg == [type |-> "none"]
Op(kind, arg, tried, ok, ok2, acked, ts, sent) ==
    [kind |-> kind,     \* the command variant, or "poll", "check", "pull", "list", "push"
     arg |-> arg,       \* the command, the change or the project the step was about
     tried |-> tried,   \* the step issued its transfer or request
     ok |-> ok,         \* that request succeeded
     ok2 |-> ok2,       \* pull: the local write succeeded; create, delete: the list
                        \* fetch that follows succeeded; check: changes were reported
     acked |-> acked,   \* the step issued POST /sync/ack
     ts |-> ts,         \* with this timestamp
     sent |-> sent]     \* events the step put on the channel
NoOp == Op("none", NoArg, FALSE, FALSE, FALSE, FALSE, 0, 0)

\* event_tx.send(..) of the events evs, then on to position next; a send
\* fails once the receiver is gone, and poll_loop returns.
Emit(evs, next) ==
    IF evs # << >> /\ ~alive
    THEN /\ pc' = "done"
         /\ events' = events
    ELSE /\ pc' = next
         /\ events' = events \o evs

\* poll_loop is at position at. The foreground receives at every frame: by
\* the time poll_loop takes its next step it has emptied the event channel,
\* or left no more than behind events in it when frames are rare.
At(at) == pc = at /\ Len(events) <= behind

\* A step that returns from poll_loop when its request failed.
StepReturnsOnError(kind, arg, tried, ok, ok2, acked, ts, evs, next) ==
    /\ op' = Op(kind, arg, tried, ok, ok2, acked, ts, IF alive THEN Len(evs) ELSE 0)
    /\ Emit(evs, IF tried /\ ~ok THEN "done" ELSE next)

\* A step of poll_loop: what it did, what it sends, where it goes on. A
\* failed request is logged and the loop goes on as after a success.
Step(kind, arg, tried, ok, ok2, acked, ts, evs, next) ==
    /\ op' = Op(kind, arg, tried, ok, ok2, acked, ts, IF alive THEN Len(evs) ELSE 0)
    /\ Emit(evs, next)

\* An http_create_sync_project that posts the paths as the command names them.
http_create_as_named(local_path, remote_path) ==
    [local_path |-> local_path, remote_path |-> remote_path]

\* http_create_sync_project: the body it posts names the paths from the
\* desktop's side, local_path the desktop path and remote_path the mobile one.
http_create_sync_project(local_path, remote_path) ==
    [local_path |-> remote_path, remote_path |-> local_path]

\* http_upload_file(local, dest): read the local file, PUT it to /sync/upload.
\* The outcomes: whether it returned Ok, and the desktop filesystem after it.
http_upload_file(mf, df, local, dest) ==
    {[ok |-> FALSE, files |-> df]}
    \cup (IF local \in DOMAIN mf
          THEN {[ok |-> okay, files |-> Write(df, dest, now)] :
                    okay \in BOOLEAN, now \in Times}
          ELSE {})

\* http_sync_ack(id, timestamp) when the request reaches the service.
AckReaches(id, timestamp) ==
    IF FindProject(sync_projects, id) # 0
    THEN LET table == AckTable(sync_projects, id, timestamp)
         IN sync_projects' = table /\ Save(table)
    ELSE UNCHANGED <<sync_projects, stored, disk_faulty, handlers>>

\* http_sync_ack(id, timestamp), its result dropped: the request reaches the
\* service or not.
http_sync_ack(id, timestamp) ==
    \/ AckReaches(id, timestamp)
    \/ UNCHANGED <<sync_projects, stored, disk_faulty, handlers>>

\* ---- command arms of poll_loop
CmdDownloadFile ==
    /\ At("drain")
    /\ \E cmd \in CommandsOf("DownloadFile"), ok \in BOOLEAN :
         Step("DownloadFile", cmd, TRUE, ok, FALSE, FALSE, 0,
              <<ClientEvent(IF ok THEN "DownloadComplete" ELSE "Error", "")>>, "drain")
    /\ UNCHANGED <<svars, mfiles, poll_due, changes, projects, failed, alive, behind>>
    /\ UNCHANGED fvars

CmdDownloadLast ==
    /\ At("drain")
    /\ \E cmd \in CommandsOf("DownloadLast"), ok \in BOOLEAN :
         Step("DownloadLast", cmd, TRUE, ok, FALSE, FALSE, 0,
              <<ClientEvent(IF ok THEN "DownloadComplete" ELSE "Error", "")>>, "drain")
    /\ UNCHANGED <<svars, mfiles, poll_due, changes, projects, failed, alive, behind>>
    /\ UNCHANGED fvars

CmdBrowse ==
    /\ At("drain")
    /\ \E cmd \in CommandsOf("Browse"), ok \in BOOLEAN :
         Step("Browse", cmd, TRUE, ok, FALSE, FALSE, 0,
              <<ClientEvent(IF ok THEN "BrowseUpdate" ELSE "Error", "")>>, "drain")
    /\ UNCHANGED <<svars, mfiles, poll_due, changes, projects, failed, alive, behind>>
    /\ UNCHANGED fvars

\* GET /pull answers 200 only for an existing file.
CmdPullFile ==
    /\ At("drain")
    /\ \E cmd \in CommandsOf("PullFile"), ok \in BOOLEAN :
         /\ ok => cmd.remote_path \in DOMAIN dfiles
         /\ Step("PullFile", cmd, TRUE, ok, FALSE, FALSE, 0,
                 <<ClientEvent(IF ok THEN "PullComplete" ELSE "Error", "")>>, "drain")
    /\ UNCHANGED <<svars, mfiles, poll_due, changes, projects, failed, alive, behind>>
    /\ UNCHANGED fvars

\* A Refresh arm that leaves last_poll alone.
KeepLastPoll(due) == due

\* last_poll = Instant::now() - poll_interval: the interval has elapsed.
ResetLastPoll(due) == TRUE

CmdRefresh ==
    /\ At("drain")
    /\ \E cmd \in CommandsOf("Refresh") :
         Step("Refresh", cmd, FALSE, FALSE, FALSE, FALSE, 0, << >>, "drain")
    /\ poll_due' = ResetLastPoll(poll_due)
    /\ UNCHANGED <<svars, mfiles, changes, projects, failed, alive, behind>>
    /\ UNCHANGED fvars

CmdUploadFile ==
    /\ At("drain")
    /\ \E cmd \in CommandsOf("UploadFile") :
         \E o \in http_upload_file(mfiles, dfiles, cmd.local_path, cmd.remote_path) :
            /\ dfiles' = o.files
            /\ dbytes' = Untracked(dbytes, cmd.remote_path)
            /\ Step("UploadFile", cmd, TRUE, o.ok, FALSE, FALSE, 0,
                    <<ClientEvent(IF o.ok THEN "UploadComplete" ELSE "Error", "")>>, "drain")
    /\ UNCHANGED <<sync_projects, stored, disk_faulty, handlers, resp,
                   mfiles, poll_due, changes, projects, failed, alive, behind>>
    /\ UNCHANGED fvars

CmdCreateSyncProject ==
    /\ At("drain")
    /\ \E cmd \in CommandsOf("CreateSyncProject") :
         \/ /\ Step("CreateSyncProject", cmd, TRUE, FALSE, FALSE, FALSE, 0,
                    <<ClientEvent("Error", "")>>, "drain")
            /\ UNCHANGED <<sync_projects, stored, disk_faulty, handlers>>
         \/ /\ Len(sync_projects) < MaxTracked
            /\ \E id \in Ids, now \in Times, listed \in BOOLEAN :
                 LET body == http_create_sync_project(cmd.local_path, cmd.remote_path)
                     project == SyncProject(id, body.local_path, body.remote_path, now, FALSE)
                     table == Append(sync_projects, project)
                 IN /\ sync_projects' = table
                    /\ Save(table)
                    /\ Step("CreateSyncProject", cmd, TRUE, TRUE, listed, FALSE, 0,
                            IF listed THEN <<ClientEvent("SyncProjectsUpdate", "")>> ELSE << >>,
                            "drain")
    /\ UNCHANGED <<dfiles, dbytes, resp, mfiles, poll_due, changes, projects, failed, alive, behind>>
    /\ UNCHANGED fvars

CmdFetchSyncProjects ==
    /\ At("drain")
    /\ \E cmd \in CommandsOf("FetchSyncProjects"), ok \in BOOLEAN :
         Step("FetchSyncProjects", cmd, TRUE, ok, FALSE, FALSE, 0,
              <<ClientEvent(IF ok THEN "SyncProjectsUpdate" ELSE "Error", "")>>, "drain")
    /\ UNCHANGED <<svars, mfiles, poll_due, changes, projects, failed, alive, behind>>
    /\ UNCHANGED fvars

\* DELETE answers 404, an Err for the client, when no project has the id.
CmdDeleteSyncProject ==
    /\ At("drain")
    /\ \E cmd \in CommandsOf("DeleteSyncProject") :
         LET table == RetainOthers(sync_projects, cmd.id)
         IN \/ /\ Step("DeleteSyncProject", cmd, TRUE, FALSE, FALSE, FALSE, 0,
                       <<ClientEvent("Error", "")>>, "drain")
               /\ UNCHANGED <<sync_projects, stored, disk_faulty, handlers>>
            \/ /\ Len(table) # Len(sync_projects)
               /\ sync_projects' = table
               /\ Save(table)
               /\ \E listed \in BOOLEAN :
                    Step("DeleteSyncProject", cmd, TRUE, TRUE, listed, FALSE, 0,
                         IF listed THEN <<ClientEvent("SyncProjectsUpdate", "")>> ELSE << >>,
                         "drain")
    /\ UNCHANGED <<dfiles, dbytes, resp, mfiles, poll_due, changes, projects, failed, alive, behind>>
    /\ UNCHANGED fvars

CmdAckSync ==
    /\ At("drain")
    /\ \E cmd \in CommandsOf("AckSync") :
         /\ http_sync_ack(cmd.id, cmd.timestamp)
         /\ Step("AckSync", cmd, TRUE, FALSE, FALSE, TRUE, cmd.timestamp, << >>, "drain")
    /\ UNCHANGED <<dfiles, dbytes, resp, mfiles, poll_due, changes, projects, failed, alive, behind>>
    /\ UNCHANGED fvars

CmdCheckSyncChanges ==
    /\ At("drain")
    /\ \E cmd \in CommandsOf("CheckSyncChanges") :
         \/ Step("CheckSyncChanges", cmd, TRUE, FALSE, FALSE, FALSE, 0,
                 <<ClientEvent("Error", "")>>, "drain")
         \/ LET reported == SyncCheckBody(sync_projects, dfiles)
            IN Step("CheckSyncChanges", cmd, TRUE, TRUE, reported # << >>, FALSE, 0,
                    IF reported # << >>
                    THEN <<ClientEvent("SyncChangesAvailable", "")>> ELSE << >>,
                    "drain")
    /\ UNCHANGED <<svars, mfiles, poll_due, changes, projects, failed, alive, behind>>
    /\ UNCHANGED fvars

\* try_recv() finds the channel empty: the drain ends, and a poll starts when
\* poll_interval has passed since last_poll.
TryRecvEmpty ==
    /\ At("drain")
    /\ alive
    /\ \E due \in {TRUE, poll_due} :
         pc' = IF due THEN "poll" ELSE "sleep"
    /\ poll_due' = FALSE
    /\ op' = NoOp
    /\ UNCHANGED <<svars, mfiles, events, changes, projects, failed, alive, behind>>
    /\ UNCHANGED fvars

\* try_recv() finds the channel disconnected: poll_loop returns.
TryRecvDisconnected ==
    /\ At("drain")
    /\ ~alive
    /\ pc' = "done"
    /\ op' = NoOp
    /\ UNCHANGED <<svars, mfiles, events, poll_due, changes, projects, failed, alive, behind>>
    /\ UNCHANGED fvars

\* ---- periodic polling
\* The last component of a path: the name the desktop puts into
\* Content-Disposition and the one rsplit('/') leaves. The paths followed
\* here have one component.
file_name(path) == path

SyncPullComplete(project_id, filename) ==
    ClientEvent("SyncPullComplete", [project_id |-> project_id, filename |-> filename])

\* A poll that sends what it fetched from /files before the StatusUpdate.
PollEventsFilesFirst(connected, files, peers) ==
    (IF files THEN <<ClientEvent("FilesUpdate", "")>> ELSE << >>)
    \o <<StatusEvent(connected)>>
    \o (IF peers THEN <<ClientEvent("PeersUpdate", app.peers)>> ELSE << >>)

\* The events of one poll, in the order of their sends.
PollEvents(connected, files, peers) ==
    <<StatusEvent(connected)>>
    \o (IF files THEN <<ClientEvent("FilesUpdate", "")>> ELSE << >>)
    \o (IF peers THEN <<ClientEvent("PeersUpdate", app.peers)>> ELSE << >>)

\* /status, /files and /peers: a StatusUpdate in either case, a FilesUpdate
\* and a PeersUpdate when their fetch succeeds.
PeriodicPoll ==
    /\ At("poll")
    /\ \E connected \in BOOLEAN, files \in BOOLEAN, peers \in BOOLEAN :
         Step("poll", NoArg, TRUE, connected, FALSE, FALSE, 0,
              PollEvents(connected, files, peers), "check")
    /\ UNCHANGED <<svars, mfiles, poll_due, changes, projects, failed, alive, behind>>
    /\ UNCHANGED fvars

\* http_sync_check at the head of the pull pass.
SyncCheck ==
    /\ At("check")
    /\ \/ /\ changes' = SyncCheckBody(sync_projects, dfiles)
          /\ failed' = {c \in failed : \E k \in DOMAIN changes' : changes'[k] = c}
          /\ op' = Op("check", NoArg, TRUE, TRUE, changes' # << >>, FALSE, 0, 0)
          /\ pc' = IF changes' = << >> THEN "list" ELSE "pull"
       \/ /\ op' = Op("check", NoArg, TRUE, FALSE, FALSE, FALSE, 0, 0)
          /\ pc' = "list"
          /\ UNCHANGED <<changes, failed>>
    /\ UNCHANGED <<svars, mfiles, events, poll_due, projects, alive, behind>>
    /\ UNCHANGED fvars

\* A pull pass that acks as soon as the file has been fetched.
PullAcksFetched(pulled, written) == pulled

\* The pull pass acks a change when the fetch and the local write succeeded.
PullAcks(pulled, written) == pulled /\ written

\* A pull pass that leaves the loop over the changes at the first failure.
NextChangeBreaks(rest, ok) == IF rest = << >> \/ ~ok THEN "list" ELSE "pull"

\* `for change in &changes`: whatever became of this change, the next one
\* is visited, and the push pass follows the last.
NextChange(rest, ok) == IF rest = << >> THEN "list" ELSE "pull"

\* The pull pass for the first change left: GET /pull of change.local_path,
\* fs::write to change.remote_path, ack, SyncPullComplete.
PullChange ==
    /\ At("pull")
    /\ changes # << >>
    /\ LET change == Head(changes)
       IN /\ changes' = Tail(changes)
          /\ \E pulled \in {FALSE, change.local_path \in DOMAIN dfiles},
                written \in BOOLEAN :
               /\ written => pulled
               /\ IF written
                  THEN \E now \in Times : mfiles' = Write(mfiles, change.remote_path, now)
                  ELSE IF pulled
                  THEN \E now \in Times :
                          mfiles' \in {mfiles, Write(mfiles, change.remote_path, now)}
                  ELSE mfiles' = mfiles
               /\ IF PullAcks(pulled, written)
                  THEN http_sync_ack(change.id, change.new_modified)
                  ELSE UNCHANGED <<sync_projects, stored, disk_faulty, handlers>>
               /\ failed' = IF pulled /\ written
                            THEN failed \ {change} ELSE failed \cup {change}
               /\ Step("pull", change, TRUE, pulled, written,
                       PullAcks(pulled, written), change.new_modified,
                       IF pulled /\ written
                       THEN <<SyncPullComplete(change.id, file_name(change.local_path))>>
                       ELSE << >>,
                       NextChange(Tail(changes), pulled /\ written))
    /\ UNCHANGED <<dfiles, dbytes, resp, poll_due, projects, alive, behind>>
    /\ UNCHANGED fvars

\* http_fetch_sync_projects at the head of the push pass.
FetchProjects ==
    /\ At("list")
    /\ \/ /\ projects' = sync_projects
          /\ op' = Op("list", NoArg, TRUE, TRUE, FALSE, FALSE, 0, 0)
          /\ pc' = IF sync_projects = << >> THEN "sleep" ELSE "push"
       \/ /\ op' = Op("list", NoArg, TRUE, FALSE, FALSE, FALSE, 0, 0)
          /\ pc' = "sleep"
          /\ UNCHANGED projects
    /\ UNCHANGED <<svars, mfiles, events, poll_due, changes, failed, alive, behind>>
    /\ UNCHANGED fvars

\* A push pass that also uploads a file as old as the watermark.
PushCondGe(project, files) ==
    /\ ~project.paused
    /\ project.remote_path \in DOMAIN files
    /\ files[project.remote_path] >= project.last_synced

\* The push pass uploads for a project that is not paused and whose mobile
\* file has readable metadata with modified > last_synced.
PushCond(project, files) ==
    /\ ~project.paused
    /\ project.remote_path \in DOMAIN files
    /\ files[project.remote_path] > project.last_synced

\* A push pass that acks whether or not the upload succeeded.
PushAcksAlways(uploaded) == TRUE

\* The push pass acks when http_upload_file returned Ok.
PushAcks(uploaded) == uploaded

\* The push pass for the first project left.
PushProject ==
    /\ At("push")
    /\ projects # << >>
    /\ LET project == Head(projects)
           next == IF Tail(projects) = << >> THEN "sleep" ELSE "push"
       IN /\ projects' = Tail(projects)
          /\ IF PushCond(project, mfiles)
             THEN LET modified == mfiles[project.remote_path]
                  IN \E o \in http_upload_file(mfiles, dfiles, project.remote_path,
                                               project.local_path) :
                        /\ dfiles' = o.files
                        /\ dbytes' = Untracked(dbytes, project.local_path)
                        /\ IF PushAcks(o.ok)
                           THEN http_sync_ack(project.id, modified)
                           ELSE UNCHANGED <<sync_projects, stored, disk_faulty, handlers>>
                        /\ Step("push", project, TRUE, o.ok, o.ok, PushAcks(o.ok), modified,
                                IF o.ok
                                THEN <<SyncPullComplete(project.id,
                                                        file_name(project.remote_path))>>
                                ELSE << >>,
                                next)
             ELSE /\ Step("push", project, FALSE, FALSE, FALSE, FALSE, 0, << >>, next)
                  /\ UNCHANGED <<sync_projects, stored, disk_faulty, handlers, dfiles, dbytes>>
    /\ UNCHANGED <<resp, mfiles, poll_due, changes, failed, alive, behind>>
    /\ UNCHANGED fvars

\* thread::sleep(100 ms)
Sleep ==
    /\ At("sleep")
    /\ pc' = "drain"
    /\ op' = NoOp
    /\ UNCHANGED <<svars, mfiles, events, poll_due, changes, projects, failed, alive, behind>>
    /\ UNCHANGED fvars

\* ---- the desktop's backend tasks (src/src/tailscale.rs)
\* The periodic peer refresh stores what fetch_status returned.
RefreshPeers ==
    /\ \E peers \in TailnetPeers : app' = [app EXCEPT !.peers = peers]
    /\ UNCHANGED <<svars, lvars, client, renderer, cached_peers, old_tasks, call, watcher>>

\* The periodic check of the inbox records a waiting file while none is
\* recorded.
FilesCheck ==
    /\ \E name \in FileNames :
         app' = [app EXCEPT !.last_file = IF @ = None THEN Some(name) ELSE @]
    /\ UNCHANGED <<svars, lvars, client, renderer, cached_peers, old_tasks, call, watcher>>

\* A SendFile command for one of the files names: its task marks the slot
\* as sending ...
SendFileTask(names) ==
    /\ \E name \in names \ app.tasks :
         app' = [app EXCEPT !.last_sent = Some(SentFileInfo(name, FALSE, TRUE)),
                            !.tasks = @ \cup {name}]
    /\ UNCHANGED <<svars, lvars, client, renderer, cached_peers, old_tasks, call, watcher>>

\* The user sends one file at a time, always the same.
SendFileMark == SendFileTask(SentNames)

\* The user sends either of two files, also while the other is being sent.
SendFileMarkEither == SendFileTask(EitherSentNames)

\* A final update that leaves the slot marked as sending.
StillSending(name, succeeded) == SentFileInfo(name, succeeded, TRUE)

\* The final update of a SendFile task.
FinalUpdate(name, succeeded) == SentFileInfo(name, succeeded, FALSE)

\* ... and, send_file over, stores the result.
SendFileResultOf(name) ==
    /\ name \in app.tasks
    /\ \E succeeded \in BOOLEAN :
         app' = [app EXCEPT !.last_sent = Some(FinalUpdate(name, succeeded)),
                            !.tasks = @ \ {name}]
    /\ UNCHANGED <<svars, lvars, client, renderer, cached_peers, old_tasks, call, watcher>>

SendFileResult == \E name \in EitherSentNames : SendFileResultOf(name)

\* ---- foreground: TailscaleClient and Renderer
\* The foreground's receive loop has emptied the channel. SpecCmd and
\* SpecSync follow poll_loop only: what the foreground makes of the events is
\* followed by render.
EventsDrained ==
    /\ alive
    /\ events # << >>
    /\ events' = << >>
    /\ UNCHANGED <<svars, mfiles, pc, poll_due, changes, projects, failed, alive, behind, op>>
    /\ UNCHANGED fvars

\* TailscaleClient::new: its fields before any event.
NewClient ==
    [connected |-> FALSE, last_sent |-> None, last_received_file |-> None,
     peers |-> << >>, save_directory |-> None, pending_sync_notifications |-> << >>]

Notification(title, body) == [title |-> title, body |-> body]

\* format!("{prefix}{name}"): the text is kept as its two parts.
Format(prefix, name) == <<prefix, name>>

\* String::new() as a body
NoBody == Format("", "")

\* save_cached_peers: the file after it; its write error is dropped, and a
\* failed write leaves the file as it was or truncated.
save_cached_peers(file, peers, disk) ==
    CASE disk = "ok" -> peers
      [] disk = "untouched" -> file
      [] OTHER -> << >>

\* load_cached_peers: the list the file holds, empty for a file that is
\* missing or does not parse.
load_cached_peers(file) == file

\* A disconnect that drops the peers.
AllDropped(peers) == << >>

\* peer.online = false for every peer
AllOffline(peers) == [k \in DOMAIN peers |-> PeerInfo(peers[k].id, FALSE)]

\* The StatusUpdate arm marks the peers offline when the connection is lost.
ClearOnline(was_connected, connected) == was_connected /\ ~connected

\* One arm of process_events, on the client st.c and the cache file st.file.
ProcessEvent(st, event, disk) ==
    CASE event.type = "StatusUpdate" ->
           LET c == st.c
               u == event.arg
           IN [st EXCEPT !.c = [c EXCEPT
                   !.connected = u.connected,
                   !.last_sent = u.last_sent,
                   !.last_received_file = u.last_received_file,
                   !.peers = IF ClearOnline(c.connected, u.connected)
                             THEN AllOffline(c.peers) ELSE c.peers]]
      [] event.type = "PeersUpdate" ->
           [st EXCEPT !.c.peers = event.arg,
                      !.file = IF st.c.save_directory # None
                               THEN save_cached_peers(st.file, event.arg, disk)
                               ELSE st.file]
      [] event.type = "SyncPullComplete" ->
           [st EXCEPT !.c.pending_sync_notifications =
                          Append(@, Notification("File Synced",
                                                 Format("Updated: ", event.arg.filename)))]
      [] OTHER -> st

\* process_events on the events evs the channel holds: try_recv hands them
\* over oldest first.
RECURSIVE ProcessEvents(_, _, _)
ProcessEvents(st, evs, disk) ==
    IF evs = << >> THEN st
    ELSE ProcessEvents(ProcessEvent(st, Head(evs), disk), Tail(evs), disk)

\* A detection that also notifies for the first file it sees.
NewFileNoPrior(current, known) == current # None

\* render announces a received file when the name differs from the one it
\* knew, and it knew one.
NewFile(current, known) == current # None /\ known # None

\* render, received files: compare with last_known_received.
DetectReceived(ren, c) ==
    IF c.last_received_file # ren.last_known_received
    THEN [ren EXCEPT
            !.pending_notifications =
                IF NewFile(c.last_received_file, ren.last_known_received)
                THEN Append(@, Notification("File Ready",
                                Format("Tap to download: ", c.last_received_file[1])))
                ELSE @,
            !.last_known_received = c.last_received_file]
    ELSE ren

\* A detection that tracks last_sent whether or not the send has succeeded.
DetectSentAny(ren, c) ==
    IF c.last_sent # None /\ Some(c.last_sent[1].name) # ren.last_known_sent_name
    THEN [ren EXCEPT
            !.pending_notifications =
                IF ren.last_known_sent_name # None
                THEN Append(@, Notification("File Sent",
                                Format("Desktop sent: ", c.last_sent[1].name)))
                ELSE @,
            !.last_known_sent_name = Some(c.last_sent[1].name)]
    ELSE ren

\* render, sent files: only a succeeded send is tracked.
DetectSent(ren, c) ==
    IF c.last_sent # None /\ c.last_sent[1].succeeded
       /\ Some(c.last_sent[1].name) # ren.last_known_sent_name
    THEN [ren EXCEPT
            !.pending_notifications =
                IF ren.last_known_sent_name # None
                THEN Append(@, Notification("File Sent",
                                Format("Desktop sent: ", c.last_sent[1].name)))
                ELSE @,
            !.last_known_sent_name = Some(c.last_sent[1].name)]
    ELSE ren

\* render, sync notifications: pop() takes the client's newest first.
RECURSIVE DrainSync(_, _)
DrainSync(ren, pending) ==
    IF pending = << >> THEN ren
    ELSE DrainSync([ren EXCEPT !.pending_notifications = Append(@, pending[Len(pending)])],
                   SubSeq(pending, 1, Len(pending) - 1))

\* A reconnect that starts the new client with an empty peer list.
CarryPeersNone(peers) == << >>

\* The reconnect moves the old client's peers into the new one.
CarryPeers(peers) == peers

\* What the disk can do to the writes of one process_events call: it writes
\* the cache only for a PeersUpdate with a save_directory set.
DiskOutcomes(c, evs) ==
    IF c.save_directory # None /\ \E k \in DOMAIN evs : evs[k].type = "PeersUpdate"
    THEN {"ok", "untouched", "truncated"}
    ELSE {"ok"}

NoCall == [fn |-> "none", value |-> ""]
Call(fn, value) == [fn |-> fn, value |-> value]

\* Renderer::render, one frame: process_events on what the channel holds by
\* then, the notification detection and, when the user asked for it in this
\* frame, the reconnect: a new TailscaleClient with the old one's peers and
\* save_directory, its poll_loop about to poll, the old one's left to itself.
RenderFrame(reconnect) ==
    /\ alive
    /\ \E n \in 0..Len(events) : \E disk \in DiskOutcomes(client, SubSeq(events, 1, n)) :
         LET st == ProcessEvents([c |-> client, file |-> cached_peers],
                                 SubSeq(events, 1, n), disk)
             queued == DrainSync(DetectSent(DetectReceived(renderer, st.c), st.c),
                               st.c.pending_sync_notifications)
             c == [st.c EXCEPT !.pending_sync_notifications = << >>]
         IN /\ Len(queued.pending_notifications) <= MaxPending
            /\ renderer' = queued
            /\ cached_peers' = st.file
            /\ IF reconnect
               THEN /\ Len(old_tasks) < MaxReconnects
                    /\ client' = [NewClient EXCEPT
                                     !.peers = CarryPeers(c.peers),
                                     !.save_directory = c.save_directory]
                    /\ old_tasks' = Append(old_tasks, pc)
                    /\ events' = << >>
                    /\ pc' = "drain"
                    /\ poll_due' = TRUE
                    /\ changes' = << >>
                    /\ projects' = << >>
                    /\ failed' = {}
                    /\ op' = NoOp
               ELSE /\ client' = c
                    /\ events' = SubSeq(events, n + 1, Len(events))
                    /\ UNCHANGED <<old_tasks, pc, poll_due, changes, projects, failed, op>>
    /\ UNCHANGED <<svars, mfiles, alive, behind, app, call, watcher>>

\* A frame in which the user does not ask for a reconnect.
render == RenderFrame(FALSE)

\* A frame in which the user connects to a server URL.
render_reconnect == RenderFrame(TRUE)

\* Where the poll_loop of a replaced client goes from position at. Its
\* command sender and its event receiver are gone: try_recv answers
\* Disconnected and a send fails, and both make it return; until it meets
\* one of them it goes on with its iteration. (A reconnect is followed for a
\* desktop that tracks no project: the passes have nothing to pull or push.)
OldTaskNext(at) ==
    CASE at = "drain" -> "done"
      [] at = "poll" -> "done"
      [] at = "check" -> "list"
      [] at = "list" -> "sleep"
      [] at = "sleep" -> "drain"

\* A step of the poll_loop of the k-th replaced client.
OldTaskStep(k) ==
    /\ k \in DOMAIN old_tasks
    /\ old_tasks[k] # "done"
    /\ old_tasks' = [old_tasks EXCEPT ![k] = OldTaskNext(@)]
    /\ UNCHANGED <<svars, lvars, app, client, renderer, cached_peers, call, watcher>>

OldTasks == \E k \in 1..MaxReconnects : OldTaskStep(k)

\* A set_save_directory that takes the cached list whatever the client holds.
FillsAlways(peers, cached) == cached # << >>

\* set_save_directory takes the cached list when the client has no peers and
\* the cache has some.
FillsFromCache(peers, cached) == peers = << >> /\ cached # << >>

\* Renderer::set_save_directory: an empty peer list is filled from the cache.
set_save_directory ==
    /\ alive
    /\ LET cached == load_cached_peers(cached_peers)
       IN client' = [client EXCEPT
                       !.save_directory = Some("dir"),
                       !.peers = IF FillsFromCache(@, cached) THEN cached ELSE @]
    /\ UNCHANGED <<svars, lvars, app, renderer, cached_peers, old_tasks, call, watcher>>

\* ---- notification calls of the host (lib.rs)
has_pending_notification ==
    /\ call' = Call("has_pending_notification", renderer.pending_notifications # << >>)
    /\ UNCHANGED <<svars, lvars, app, client, renderer, cached_peers, old_tasks, watcher>>

notification_title ==
    /\ call' = Call("notification_title",
                    IF renderer.pending_notifications = << >> THEN ""
                    ELSE Head(renderer.pending_notifications).title)
    /\ UNCHANGED <<svars, lvars, app, client, renderer, cached_peers, old_tasks, watcher>>

\* A consume that hands out the body and leaves the notification queued.
ConsumeKeeps(queue) == queue

\* consume_notification_body: remove(0)
ConsumeRemoves(queue) == Tail(queue)

consume_notification_body ==
    /\ IF renderer.pending_notifications = << >>
       THEN /\ call' = Call("consume_notification_body", NoBody)
            /\ UNCHANGED renderer
       ELSE /\ call' = Call("consume_notification_body",
                            Head(renderer.pending_notifications).body)
            /\ renderer' = [renderer EXCEPT
                              !.pending_notifications = ConsumeRemoves(@)]
    /\ UNCHANGED <<svars, lvars, app, client, cached_peers, old_tasks, watcher>>

\* The TailscaleClient is dropped, and both channel ends with it.
DropClient ==
    /\ alive
    /\ alive' = FALSE
    /\ events' = << >>
    /\ UNCHANGED <<svars, mfiles, pc, poll_due, changes, projects, failed, behind, op>>
    /\ UNCHANGED fvars

\* The desktop user edits, creates or removes a file.
EditDesktopFile ==
    /\ \E path \in DesktopPaths, now \in Times :
        /\ dfiles' = Write(dfiles, path, now)
        /\ dbytes' = Untracked(dbytes, path)
    /\ resp' = NoResp
    /\ op' = NoOp
    /\ UNCHANGED <<sync_projects, stored, disk_faulty, handlers, cvars>>
    /\ UNCHANGED fvars

RemoveDesktopFile ==
    /\ \E path \in DOMAIN dfiles :
        /\ dfiles' = Remove(dfiles, path)
        /\ dbytes' = Untracked(dbytes, path)
    /\ resp' = NoResp
    /\ op' = NoOp
    /\ UNCHANGED <<sync_projects, stored, disk_faulty, handlers, cvars>>
    /\ UNCHANGED fvars

\* The mobile user does the same on the phone.
EditMobileFile ==
    /\ \E path \in MobilePaths, now \in Times :
        mfiles' = Write(mfiles, path, now)
    /\ op' = NoOp
    /\ UNCHANGED <<svars, events, pc, poll_due, changes, projects, failed, alive, behind>>
    /\ UNCHANGED fvars

RemoveMobileFile ==
    /\ \E path \in DOMAIN mfiles :
        mfiles' = Remove(mfiles, path)
    /\ op' = NoOp
    /\ UNCHANGED <<svars, events, pc, poll_due, changes, projects, failed, alive, behind>>
    /\ UNCHANGED fvars

\* ------------------------------------------------- handlers, step by step
\* axum runs every request as a task of its own, so handlers interleave at
\* their lock, filesystem and reply steps. A std::sync::Mutex guard lives to
\* the end of its statement when it is a temporary, to the end of its block
\* when it is bound to a name.
MaxRequests == 2
Requests == 1..MaxRequests

\* The positions at which a handler is inside a filesystem call.
IoSteps == {"save", "metadata", "current_dir", "write"}

Handler(handler, at, holds, id, ts, copy) ==
    [handler |-> handler, at |-> at, holds |-> holds, id |-> id, ts |-> ts, copy |-> copy]
Idle == Handler("none", "idle", {}, "", 0, << >>)
NoHandlers == [r \in Requests |-> Idle]

\* Mutex::lock returns only when no other task holds the guard.
Free(lock) == \A r \in Requests : lock \notin handlers[r].holds

Starts(r, handler) == handlers[r].handler = handler /\ handlers[r].at = "start"

\* The router hands a request to its handler; the extractors have parsed the
\* path and the body.
Accept(r) ==
    /\ handlers[r] = Idle
    /\ \/ \E handler \in {"sync_create_project", "sync_list_projects", "sync_check",
                          "status_handler"} :
            handlers' = [handlers EXCEPT ![r] = Handler(handler, "start", {}, "", 0, << >>)]
       \/ \E id \in Ids :
            handlers' = [handlers EXCEPT
                            ![r] = Handler("sync_delete_project", "start", {}, id, 0, << >>)]
       \/ \E id \in Ids, timestamp \in Times :
            handlers' = [handlers EXCEPT
                            ![r] = Handler("sync_ack", "start", {}, id, timestamp, << >>)]
       \/ \E path \in DesktopPaths :
            handlers' = [handlers EXCEPT
                            ![r] = Handler("sync_upload_handler", "write", {}, path, 0, OtherBytes)]
    /\ UNCHANGED <<sync_projects, stored, dfiles, dbytes, disk_faulty, resp, lvars>>
    /\ UNCHANGED fvars

\* sync_create_project: let mut projects = lock(); projects.push(project).
LockCreate(r) ==
    /\ Starts(r, "sync_create_project")
    /\ Free("sync_projects")
    /\ Len(sync_projects) < MaxProjects
    /\ \E body \in CreateSyncProjectRequest, id \in Ids, now \in Times :
         LET project == SyncProject(id, body.local_path, body.remote_path, now, FALSE)
         IN /\ sync_projects' = Append(sync_projects, project)
            /\ handlers' = [handlers EXCEPT
                  ![r] = Handler("sync_create_project", "save", {"sync_projects"},
                                 id, now, <<project>>)]
    /\ UNCHANGED <<stored, dfiles, dbytes, disk_faulty, resp, lvars>>
    /\ UNCHANGED fvars

\* sync_delete_project: let mut projects = lock(); retain; the 404 branch
\* returns at once and drops the guard.
LockDelete(r) ==
    /\ Starts(r, "sync_delete_project")
    /\ Free("sync_projects")
    /\ LET table == RetainOthers(sync_projects, handlers[r].id)
       IN IF Len(table) = Len(sync_projects)
          THEN /\ resp' = Resp("delete", 404, handlers[r].id, 0, << >>)
               /\ handlers' = [handlers EXCEPT ![r] = Idle]
               /\ UNCHANGED sync_projects
          ELSE /\ sync_projects' = table
               /\ handlers' = [handlers EXCEPT
                                  ![r].at = "save", ![r].holds = {"sync_projects"}]
               /\ UNCHANGED resp
    /\ UNCHANGED <<stored, dfiles, dbytes, disk_faulty, lvars>>
    /\ UNCHANGED fvars

\* sync_ack: let mut projects = lock(); the project found has its
\* last_synced set; the 404 branch returns and drops the guard.
LockAck(r) ==
    /\ Starts(r, "sync_ack")
    /\ Free("sync_projects")
    /\ IF FindProject(sync_projects, handlers[r].id) # 0
       THEN /\ sync_projects' = AckTable(sync_projects, handlers[r].id, handlers[r].ts)
            /\ handlers' = [handlers EXCEPT
                               ![r].at = "save", ![r].holds = {"sync_projects"}]
            /\ UNCHANGED resp
       ELSE /\ resp' = Resp("ack", 404, handlers[r].id, handlers[r].ts, << >>)
            /\ handlers' = [handlers EXCEPT ![r] = Idle]
            /\ UNCHANGED sync_projects
    /\ UNCHANGED <<stored, dfiles, dbytes, disk_faulty, lvars>>
    /\ UNCHANGED fvars

\* save_sync_projects(&projects) as the create, delete and ack handlers call
\* it: the guard taken before is still in scope, and is dropped when the
\* handler returns its response.
SaveProjects(r) ==
    /\ handlers[r].at = "save"
    /\ stored' \in save_sync_projects(stored, sync_projects, disk_faulty)
    /\ resp' = CASE handlers[r].handler = "sync_create_project" ->
                      Resp("create", 200, handlers[r].id, handlers[r].ts, handlers[r].copy)
                 [] handlers[r].handler = "sync_delete_project" ->
                      Resp("delete", 200, handlers[r].id, 0, << >>)
                 [] OTHER ->
                      Resp("ack", 200, handlers[r].id, handlers[r].ts, << >>)
    /\ handlers' = [handlers EXCEPT ![r] = Idle]
    /\ UNCHANGED <<sync_projects, dfiles, dbytes, disk_faulty, lvars>>
    /\ UNCHANGED fvars

\* sync_list_projects: the guard is a temporary of the statement that clones
\* the table.
LockList(r) ==
    /\ Starts(r, "sync_list_projects")
    /\ Free("sync_projects")
    /\ resp' = Resp("list", 200, "", 0, sync_projects)
    /\ handlers' = [handlers EXCEPT ![r] = Idle]
    /\ UNCHANGED <<sync_projects, stored, dfiles, dbytes, disk_faulty, lvars>>
    /\ UNCHANGED fvars

\* sync_check: let projects = lock(), bound for the whole loop.
LockCheck(r) ==
    /\ Starts(r, "sync_check")
    /\ Free("sync_projects")
    /\ handlers' = [handlers EXCEPT ![r].at = "metadata", ![r].holds = {"sync_projects"}]
    /\ UNCHANGED <<sync_projects, stored, dfiles, dbytes, disk_faulty, resp, lvars>>
    /\ UNCHANGED fvars

\* sync_check's loop: std::fs::metadata for the path of every project that
\* is not paused; the guard is dropped when the handler returns.
ReadMetadata(r) ==
    /\ handlers[r].at = "metadata"
    /\ resp' = Resp("check", 200, "", 0, SyncCheckBody(sync_projects, dfiles))
    /\ handlers' = [handlers EXCEPT ![r] = Idle]
    /\ UNCHANGED <<sync_projects, stored, dfiles, dbytes, disk_faulty, lvars>>
    /\ UNCHANGED fvars

\* status_handler: last_sent.lock().clone() and received.lock().last_file
\* .clone(), each guard a temporary of its own statement.
CopyStatus(r) ==
    /\ Starts(r, "status_handler")
    /\ Free("last_sent")
    /\ Free("received")
    /\ handlers' = [handlers EXCEPT
                       ![r].at = "current_dir", ![r].copy = <<app.last_sent, app.last_file>>]
    /\ UNCHANGED <<sync_projects, stored, dfiles, dbytes, disk_faulty, resp, lvars>>
    /\ UNCHANGED fvars

\* status_handler: std::env::current_dir(), then the response.
CurrentDir(r) ==
    /\ handlers[r].at = "current_dir"
    /\ resp' = Resp("status", 200, "", 0, handlers[r].copy)
    /\ handlers' = [handlers EXCEPT ![r] = Idle]
    /\ UNCHANGED <<sync_projects, stored, dfiles, dbytes, disk_faulty, lvars>>
    /\ UNCHANGED fvars

\* sync_upload_handler takes no lock: create_dir_all, then fs::write.
WriteUpload(r) ==
    /\ handlers[r].at = "write"
    /\ \E now \in Times :
        \/ /\ dfiles' = Write(dfiles, handlers[r].id, now)
           /\ dbytes' = WriteBytes(dbytes, handlers[r].id, handlers[r].copy)
           /\ resp' = Resp("upload", 200, handlers[r].id, now, handlers[r].copy)
        \/ /\ \/ UNCHANGED <<dfiles, dbytes>>
              \/ /\ dfiles' = Write(dfiles, handlers[r].id, now)
                 /\ dbytes' \in Truncated(dbytes, handlers[r].id, handlers[r].copy)
           /\ resp' = Resp("upload", 500, handlers[r].id, now, handlers[r].copy)
    /\ handlers' = [handlers EXCEPT ![r] = Idle]
    /\ UNCHANGED <<sync_projects, stored, disk_faulty, lvars>>
    /\ UNCHANGED fvars

\* ------------------------------------------------------- specifications
InitService(faulty) ==
    /\ stored \in InitialStored
    /\ disk_faulty = faulty
    /\ handlers = NoHandlers
    /\ sync_projects = load_sync_projects(stored)
    /\ resp = NoResp

\* No file exists yet on either side. TailscaleClient::new: empty channels,
\* a poll_loop about to poll at once.
\* Renderer::new: nothing seen, nothing queued; no request served yet.
InitForeground ==
    /\ app = NewAppState
    /\ client = NewClient
    /\ renderer = [pending_notifications |-> << >>, last_known_received |-> None,
                   last_known_sent_name |-> None]
    /\ old_tasks = << >>
    /\ call = NoCall
    /\ watcher = NoWatch

InitClient ==
    /\ InitForeground
    /\ cached_peers = << >>
    /\ dfiles = << >>
    /\ dbytes = << >>
    /\ mfiles = << >>
    /\ events = << >>
    /\ pc = "drain"
    /\ poll_due = TRUE
    /\ changes = << >>
    /\ projects = << >>
    /\ failed = {}
    /\ alive = TRUE
    /\ behind = 0
    /\ op = NoOp

Next ==
    \/ sync_create_project
    \/ sync_delete_project
    \/ sync_list_projects
    \/ sync_check
    \/ sync_ack
    \/ sync_upload_handler
    \/ pull_file_handler
    \/ new_app_state
    \/ EditDesktopFile
    \/ RemoveDesktopFile

Init == InitService(FALSE) /\ InitClient

\* The service on a healthy disk, under requests of any client.
Spec == Init /\ [][Next]_vars

\* The service on a disk whose writes can fail.
NextPersist ==
    \/ sync_create_project
    \/ sync_delete_project
    \/ sync_ack
    \/ new_app_state

InitPersist == InitService(TRUE) /\ InitClient
SpecPersist == InitPersist /\ [][NextPersist]_vars

\* The files a filesystem may hold when the client starts.
FileSystems(paths) ==
    UNION {[present -> Times] : present \in SUBSET paths}

\* poll_loop serving the commands of the foreground: every command variant,
\* over files that exist when the client starts.
InitCmd ==
    /\ InitService(FALSE)
    /\ InitForeground
    /\ cached_peers = << >>
    /\ dfiles \in FileSystems(DesktopPaths)
    /\ dbytes = << >>
    /\ mfiles \in FileSystems(MobilePaths)
    /\ events = << >>
    /\ pc = "drain"
    /\ poll_due = TRUE
    /\ changes = << >>
    /\ projects = << >>
    /\ failed = {}
    /\ alive = TRUE
    /\ behind = 0
    /\ op = NoOp

NextCmd ==
    \/ CmdDownloadFile
    \/ CmdDownloadLast
    \/ CmdBrowse
    \/ CmdPullFile
    \/ CmdRefresh
    \/ CmdUploadFile
    \/ CmdCreateSyncProject
    \/ CmdFetchSyncProjects
    \/ CmdDeleteSyncProject
    \/ CmdAckSync
    \/ CmdCheckSyncChanges
    \/ TryRecvEmpty
    \/ TryRecvDisconnected
    \/ PeriodicPoll
    \/ SyncCheck
    \/ PullChange
    \/ FetchProjects
    \/ PushProject
    \/ Sleep
    \/ EventsDrained
    \/ DropClient

SpecCmd == InitCmd /\ [][NextCmd]_vars

\* poll_loop reconciling the projects the foreground creates and deletes,
\* while both users edit their files.
NextSync ==
    \/ CmdCreateSyncProject
    \/ CmdDeleteSyncProject
    \/ TryRecvEmpty
    \/ PeriodicPoll
    \/ SyncCheck
    \/ PullChange
    \/ FetchProjects
    \/ PushProject
    \/ Sleep
    \/ EventsDrained
    \/ EditDesktopFile
    \/ RemoveDesktopFile
    \/ EditMobileFile
    \/ RemoveMobileFile

SpecSync == Init /\ [][NextSync]_vars

\* One poll_loop from its start to its return: a project is tracked and its
\* desktop file exists, so that both passes have work; the desktop has
\* fetched its peers; the foreground sends commands, renders, and in the
\* end drops the client.
InitLoop ==
    /\ stored = <<SyncProject("a", "d1", "m1", 0, FALSE)>>
    /\ disk_faulty = FALSE
    /\ handlers = NoHandlers
    /\ sync_projects = load_sync_projects(stored)
    /\ resp = NoResp
    /\ app = [NewAppState EXCEPT !.peers = <<PeerInfo("p1", TRUE)>>]
    /\ client = NewClient
    /\ renderer = [pending_notifications |-> << >>, last_known_received |-> None,
                   last_known_sent_name |-> None]
    /\ old_tasks = << >>
    /\ call = NoCall
    /\ watcher = NoWatch
    /\ cached_peers = << >>
    /\ dfiles \in [DesktopPaths -> Times]
    /\ dbytes = << >>
    /\ mfiles = << >>
    /\ events = << >>
    /\ pc = "drain"
    /\ poll_due = TRUE
    /\ changes = << >>
    /\ projects = << >>
    /\ failed = {}
    /\ alive = TRUE
    /\ behind = 0
    /\ op = NoOp

NextLoop ==
    \/ CmdBrowse
    \/ CmdRefresh
    \/ TryRecvEmpty
    \/ TryRecvDisconnected
    \/ PeriodicPoll
    \/ SyncCheck
    \/ PullChange
    \/ FetchProjects
    \/ PushProject
    \/ Sleep
    \/ render
    \/ DropClient

SpecLoop == InitLoop /\ [][NextLoop]_vars

\* Frames are rare (the app is in the background): the events of several
\* steps of poll_loop wait in the channel for one process_events. A project
\* is tracked, its desktop file exists, the host takes the notifications.
InitQueue ==
    /\ stored = <<SyncProject("a", "d1", "m1", 0, FALSE)>>
    /\ disk_faulty = FALSE
    /\ handlers = NoHandlers
    /\ sync_projects = load_sync_projects(stored)
    /\ resp = NoResp
    /\ InitForeground
    /\ cached_peers = << >>
    /\ dfiles = [path \in DesktopPaths |-> 1]
    /\ dbytes = << >>
    /\ mfiles = << >>
    /\ events = << >>
    /\ pc = "drain"
    /\ poll_due = TRUE
    /\ changes = << >>
    /\ projects = << >>
    /\ failed = {}
    /\ alive = TRUE
    /\ behind = MaxBehind
    /\ op = NoOp

NextQueue ==
    \/ TryRecvEmpty
    \/ PeriodicPoll
    \/ SyncCheck
    \/ PullChange
    \/ FetchProjects
    \/ PushProject
    \/ Sleep
    \/ render
    \/ consume_notification_body

SpecQueue == InitQueue /\ [][NextQueue]_vars

\* The ticks of a client with two projects, both with a desktop file newer
\* than the watermark: transfers, writes and acks fail or succeed.
InitTick ==
    /\ stored = <<SyncProject("a", "d1", "m1", 0, FALSE),
                  SyncProject("b", "d2", "m2", 0, FALSE)>>
    /\ disk_faulty = FALSE
    /\ handlers = NoHandlers
    /\ sync_projects = load_sync_projects(stored)
    /\ resp = NoResp
    /\ InitForeground
    /\ cached_peers = << >>
    /\ dfiles = [path \in {"d1", "d2"} |-> 1]
    /\ dbytes = << >>
    /\ mfiles = << >>
    /\ events = << >>
    /\ pc = "drain"
    /\ poll_due = TRUE
    /\ changes = << >>
    /\ projects = << >>
    /\ failed = {}
    /\ alive = TRUE
    /\ behind = 0
    /\ op = NoOp

NextTick ==
    \/ TryRecvEmpty
    \/ PeriodicPoll
    \/ SyncCheck
    \/ PullChange
    \/ FetchProjects
    \/ PushProject
    \/ Sleep
    \/ EventsDrained

SpecTick == InitTick /\ [][NextTick]_vars

\* The foreground's peer list: the desktop's tailnet changes, the client
\* polls, the user sets the save directory and reconnects; cached_peers.json
\* holds what an earlier run of the app left.
InitPeers ==
    /\ stored = << >>
    /\ disk_faulty = FALSE
    /\ handlers = NoHandlers
    /\ sync_projects = load_sync_projects(stored)
    /\ resp = NoResp
    /\ InitForeground
    /\ cached_peers \in TailnetPeers
    /\ dfiles = << >>
    /\ dbytes = << >>
    /\ mfiles = << >>
    /\ events = << >>
    /\ pc = "drain"
    /\ poll_due = TRUE
    /\ changes = << >>
    /\ projects = << >>
    /\ failed = {}
    /\ alive = TRUE
    /\ behind = 0
    /\ op = NoOp

NextPeers ==
    \/ RefreshPeers
    \/ TryRecvEmpty
    \/ PeriodicPoll
    \/ SyncCheck
    \/ FetchProjects
    \/ Sleep
    \/ render
    \/ render_reconnect
    \/ set_save_directory
    \/ OldTasks

SpecPeers == InitPeers /\ [][NextPeers]_vars

\* Every poll_loop thread is scheduled again and again.
FairPeers ==
    /\ SpecPeers
    /\ \A k \in 1..MaxReconnects : WF_vars(OldTaskStep(k))

\* No project is tracked and no file exists.
InitIdle ==
    /\ stored = << >>
    /\ disk_faulty = FALSE
    /\ handlers = NoHandlers
    /\ sync_projects = load_sync_projects(stored)
    /\ resp = NoResp
    /\ InitClient

\* The status the foreground shows: the desktop's peers change, it receives
\* and sends files, the client polls and renders.
NextStatus ==
    \/ RefreshPeers
    \/ FilesCheck
    \/ SendFileMark
    \/ SendFileResult
    \/ TryRecvEmpty
    \/ PeriodicPoll
    \/ SyncCheck
    \/ FetchProjects
    \/ Sleep
    \/ render

SpecStatus == InitIdle /\ [][NextStatus]_vars

\* The desktop sends files, two at a time as well; the client polls, the
\* foreground renders and the host takes the notifications.
NextSend ==
    \/ SendFileMarkEither
    \/ SendFileResult
    \/ TryRecvEmpty
    \/ PeriodicPoll
    \/ SyncCheck
    \/ FetchProjects
    \/ Sleep
    \/ render
    \/ consume_notification_body

SpecSend == InitIdle /\ [][NextSend]_vars

\* Every send_file call returns.
FairSend ==
    /\ SpecSend
    /\ \A name \in EitherSentNames : WF_vars(SendFileResultOf(name))

\* The renderer's notifications: the desktop receives and sends files and
\* restarts, the client polls, the host asks for the notifications.
NextNotify ==
    \/ FilesCheck
    \/ new_app_state
    \/ TryRecvEmpty
    \/ PeriodicPoll
    \/ SyncCheck
    \/ FetchProjects
    \/ Sleep
    \/ render
    \/ has_pending_notification
    \/ notification_title
    \/ consume_notification_body

SpecNotify == InitIdle /\ [][NextNotify]_vars

\* The service's handlers step by step, several requests at a time.
NextLocks ==
    \E r \in Requests :
        \/ Accept(r)
        \/ LockCreate(r)
        \/ LockDelete(r)
        \/ LockAck(r)
        \/ SaveProjects(r)
        \/ LockList(r)
        \/ LockCheck(r)
        \/ ReadMetadata(r)
        \/ CopyStatus(r)
        \/ CurrentDir(r)
        \/ WriteUpload(r)

SpecLocks == Init /\ [][NextLocks]_vars

\* The desktop's files byte by byte: uploads of every body, pulls, the
\* user's edits and removals, and a request that touches no file.
NextBytes ==
    \/ sync_upload_bodies
    \/ pull_file_handler
    \/ sync_list_projects
    \/ EditDesktopFile
    \/ RemoveDesktopFile

SpecBytes == Init /\ [][NextBytes]_vars

\* The desktop's watcher of the notification bus, chunk by chunk.
NextWatch ==
    \/ WatchFrame
    \/ WatchEnds

SpecWatch == Init /\ [][NextWatch]_vars

\* The code only compares time stamps and copies them, so a run in which
\* every time stamp is one second less is a run as well. Between two ticks
\* the model may count its seconds from one second later: this keeps runs in
\* which the clocks go on for ever inside Times. It does so where poll_loop
\* holds no time stamp of its own: before the push pass and before the sleep.
Earlier(files) == [p \in DOMAIN files |-> files[p] - 1]
EarlierTable(table) ==
    [i \in DOMAIN table |-> [table[i] EXCEPT !.last_synced = @ - 1]]

Rebase ==
    /\ pc \in {"list", "sleep"}
    /\ changes = << >> /\ projects = << >> /\ failed = {}
    /\ \A p \in DOMAIN dfiles : dfiles[p] >= 1
    /\ \A p \in DOMAIN mfiles : mfiles[p] >= 1
    /\ \A i \in DOMAIN sync_projects : sync_projects[i].last_synced >= 1
    /\ \A i \in DOMAIN stored : stored[i].last_synced >= 1
    /\ dfiles' = Earlier(dfiles)
    /\ mfiles' = Earlier(mfiles)
    /\ sync_projects' = EarlierTable(sync_projects)
    /\ stored' = EarlierTable(stored)
    /\ op' = NoOp
    /\ resp' = NoResp
    /\ UNCHANGED <<dbytes, disk_faulty, handlers, events, pc, poll_due, changes, projects,
                   failed, alive, behind>>
    /\ UNCHANGED fvars

\* The step's requests reached the service and its writes succeeded.
Succeeds ==
    /\ op'.tried => op'.ok
    /\ op'.kind = "pull" => op'.ok2
    /\ op'.acked => sync_projects' = AckTable(sync_projects, op'.arg.id, op'.ts)

\* A synced project (desktop file, mobile file and watermark of second 0)
\* whose desktop file has just been modified, in second 1.
InitQuiet ==
    /\ stored = <<SyncProject("a", "d1", "m1", 0, FALSE)>>
    /\ disk_faulty = FALSE
    /\ handlers = NoHandlers
    /\ sync_projects = load_sync_projects(stored)
    /\ resp = NoResp
    /\ InitForeground
    /\ cached_peers = << >>
    /\ dfiles = [path \in {"d1"} |-> 1]
    /\ dbytes = << >>
    /\ mfiles = [path \in {"m1"} |-> 0]
    /\ events = << >>
    /\ pc = "drain"
    /\ poll_due = TRUE
    /\ changes = << >>
    /\ projects = << >>
    /\ failed = {}
    /\ alive = TRUE
    /\ behind = 0
    /\ op = NoOp

\* poll_loop alone, no user edit, the service reachable, every write and
\* request succeeding.
LoopQuiet ==
    \/ TryRecvEmpty
    \/ PeriodicPoll /\ Succeeds
    \/ SyncCheck /\ Succeeds
    \/ PullChange /\ Succeeds
    \/ FetchProjects /\ Succeeds
    \/ PushProject /\ Succeeds
    \/ Sleep
    \/ EventsDrained

NextQuiet == LoopQuiet \/ Rebase

SpecQuiet == InitQuiet /\ [][NextQuiet]_vars

\* The poll_loop thread and the foreground keep running.
FairQuiet == SpecQuiet /\ WF_vars(LoopQuiet)

\* A project whose two files were both modified after the last sync, before
\* the first tick; from then on poll_loop runs alone, its steps fail or
\* succeed.
InitConflict ==
    /\ stored = <<SyncProject("a", "d1", "m1", 0, FALSE)>>
    /\ disk_faulty = FALSE
    /\ handlers = NoHandlers
    /\ sync_projects = load_sync_projects(stored)
    /\ resp = NoResp
    /\ InitForeground
    /\ cached_peers = << >>
    /\ dfiles \in [{"d1"} -> Times \ {0}]
    /\ dbytes = << >>
    /\ mfiles \in [{"m1"} -> Times \ {0}]
    /\ events = << >>
    /\ pc = "drain"
    /\ poll_due = TRUE
    /\ changes = << >>
    /\ projects = << >>
    /\ failed = {}
    /\ alive = TRUE
    /\ behind = 0
    /\ op = NoOp

SpecConflict == InitConflict /\ [][NextTick]_vars

\* Projects are created for the one pair of files while poll_loop ticks:
\* rand_id may give a new project the id of an older one.
InitIds ==
    /\ stored = << >>
    /\ disk_faulty = FALSE
    /\ handlers = NoHandlers
    /\ sync_projects = load_sync_projects(stored)
    /\ resp = NoResp
    /\ InitForeground
    /\ cached_peers = << >>
    /\ dfiles = [path \in {"d1"} |-> 1]
    /\ dbytes = << >>
    /\ mfiles = [path \in {"m1"} |-> 1]
    /\ events = << >>
    /\ pc = "drain"
    /\ poll_due = TRUE
    /\ changes = << >>
    /\ projects = << >>
    /\ failed = {}
    /\ alive = TRUE
    /\ behind = 0
    /\ op = NoOp

NextIds ==
    \/ sync_create_project
    \/ TryRecvEmpty
    \/ PeriodicPoll
    \/ SyncCheck
    \/ PullChange
    \/ FetchProjects
    \/ PushProject
    \/ Sleep
    \/ EventsDrained

SpecIds == InitIds /\ [][NextIds]_vars

\* The second received file: the client has polled and shown a frame while
\* the desktop recorded f1; the desktop has started again since and its
\* inbox check has recorded f2; the loop is about to look at its channels.
\* No notification is consumed, so the queue keeps what the frames put
\* there.
InitSecond ==
    /\ stored = << >>
    /\ disk_faulty = FALSE
    /\ handlers = NoHandlers
    /\ sync_projects = load_sync_projects(stored)
    /\ resp = Resp("start", 0, "", 0, << >>)
    /\ app = [NewAppState EXCEPT !.last_file = Some("f2")]
    /\ client = [NewClient EXCEPT !.connected = TRUE,
                                  !.last_received_file = Some("f1")]
    /\ renderer = [pending_notifications |-> << >>, last_known_received |-> Some("f1"),
                   last_known_sent_name |-> None]
    /\ old_tasks = << >>
    /\ call = NoCall
    /\ watcher = NoWatch
    /\ cached_peers = << >>
    /\ dfiles = << >>
    /\ dbytes = << >>
    /\ mfiles = << >>
    /\ events = << >>
    /\ pc = "drain"
    /\ poll_due = FALSE
    /\ changes = << >>
    /\ projects = << >>
    /\ failed = {}
    /\ alive = TRUE
    /\ behind = 0
    /\ op = NoOp

NextSecond ==
    \/ TryRecvEmpty
    \/ PeriodicPoll
    \/ SyncCheck
    \/ FetchProjects
    \/ Sleep
    \/ render
    \/ has_pending_notification
    \/ notification_title

SpecSecond == InitSecond /\ [][NextSecond]_vars

\* ===================================================================
\* Claims about the HTTP service
\* ===================================================================
Stamp(i) == sync_projects[i].last_synced
UniqueId(i) == \A j \in DOMAIN sync_projects : sync_projects[j].id = sync_projects[i].id => j = i

\* The desktop file of project i exists and is newer than the watermark.
Changed(i) ==
    /\ ~sync_projects[i].paused
    /\ sync_projects[i].local_path \in DOMAIN dfiles
    /\ dfiles[sync_projects[i].local_path] > Stamp(i)

ChangeOf(i) == SyncChangeResponse(sync_projects[i], dfiles[sync_projects[i].local_path])

\* C1: over any sequence of POST /sync/ack requests no project's last_synced
\* ever decreases from one state to the next.
C1_WatermarkMonotone ==
    [][resp'.op = "ack" =>
         \A i \in DOMAIN sync_projects :
             sync_projects'[i].last_synced >= sync_projects[i].last_synced]_vars

\* C4: a check reports a project whose file is newer than its watermark
\* exactly once, with new_modified = the file's mtime; a 200 ack carrying that
\* mtime leaves the project unreported, and no later check reports it while
\* the watermark is not below the file's mtime.
C4_Reported ==
    resp.op = "check" =>
        \A i \in DOMAIN sync_projects :
            (UniqueId(i) /\ Changed(i)) =>
                /\ Cardinality({k \in DOMAIN resp.body : resp.body[k].id = sync_projects[i].id}) = 1
                /\ \A k \in DOMAIN resp.body :
                      resp.body[k].id = sync_projects[i].id =>
                          resp.body[k].new_modified = dfiles[sync_projects[i].local_path]

C4_Quiet ==
    resp.op = "check" =>
        \A i \in DOMAIN sync_projects :
            (/\ UniqueId(i)
             /\ sync_projects[i].local_path \in DOMAIN dfiles
             /\ Stamp(i) >= dfiles[sync_projects[i].local_path]) =>
                \A k \in DOMAIN resp.body : resp.body[k].id # sync_projects[i].id

C4_AckStep ==
    (resp'.op = "ack" /\ resp'.status = 200) =>
        LET i == FindProject(sync_projects, resp'.id)
            body == SyncCheckBody(sync_projects', dfiles')
        IN (/\ UniqueId(i)
            /\ sync_projects[i].local_path \in DOMAIN dfiles
            /\ resp'.ts = dfiles[sync_projects[i].local_path]) =>
               \A k \in DOMAIN body : body[k].id # resp'.id

C5_Body ==
    resp.op = "check" =>
        /\ Len(resp.body) = Cardinality({i \in DOMAIN sync_projects : Changed(i)})
        /\ \A i \in DOMAIN sync_projects :
              Changed(i) => \E k \in DOMAIN resp.body : resp.body[k] = ChangeOf(i)
        /\ \A k \in DOMAIN resp.body :
              \E i \in DOMAIN sync_projects : Changed(i) /\ resp.body[k] = ChangeOf(i)

C5_Frame == resp'.op = "check" => UNCHANGED <<sync_projects, stored, dfiles, dbytes>>

C5_CheckReadsOnly == []C5_Body /\ [][C5_Frame]_vars

\* C5 witness: a check answered with a proper, non-empty part of a table that
\* also holds a paused project.
C5_Witness ==
    /\ resp.op = "check"
    /\ Len(resp.body) > 0
    /\ Len(resp.body) < Len(sync_projects)
    /\ \E i \in DOMAIN sync_projects : sync_projects[i].paused

\* C7: a POST /sync/ack repeating the id and timestamp of the ack handled
\* just before it leaves the table as that first ack left it.
C7_IdempotentAck ==
    [][(/\ resp.op = "ack"
        /\ resp'.op = "ack"
        /\ resp'.id = resp.id
        /\ resp'.ts = resp.ts) => sync_projects' = sync_projects]_vars

\* C7 witness: an ack with a positive timestamp has been applied (the state
\* the repeated ack starts from).
C7_Witness ==
    /\ resp.op = "ack" /\ resp.status = 200 /\ resp.ts > 0
    /\ Stamp(FindProject(sync_projects, resp.id)) = resp.ts

\* C8: a step changes the last_synced of a project of the table only when it
\* is a 200 POST /sync/ack for that project's id; a step that shortens the
\* table keeps the remaining projects as they were.
C8_Step ==
    /\ Len(sync_projects') >= Len(sync_projects) =>
          \A i \in DOMAIN sync_projects :
              sync_projects'[i].last_synced # sync_projects[i].last_synced =>
                  /\ resp'.op = "ack" /\ resp'.status = 200
                  /\ resp'.id = sync_projects[i].id
    /\ Len(sync_projects') < Len(sync_projects) =>
          /\ resp'.op = "delete"
          /\ \A k \in DOMAIN sync_projects' :
                \E i \in DOMAIN sync_projects : sync_projects[i] = sync_projects'[k]

C8_OnlyAckMovesWatermark == [][C8_Step]_vars

\* C8 witness: another project has just been created next to a project whose
\* watermark differs from its file's mtime.
C8_Witness ==
    /\ resp.op = "create"
    /\ Len(sync_projects) = 2
    /\ sync_projects[1].id # sync_projects[2].id
    /\ sync_projects[1].local_path \in DOMAIN dfiles
    /\ dfiles[sync_projects[1].local_path] > Stamp(1)

\* C9: whenever a mutating sync endpoint has answered 200, the table in
\* sync_projects.json equals the in-memory table, also when the write failed.
C9_PersistBefore200 ==
    (resp.op \in {"create", "delete", "ack"} /\ resp.status = 200) =>
        load_sync_projects(stored) = sync_projects

\* ===================================================================
\* Claims about the poll loop
\* ===================================================================
\* The receiving side's file of the latest reconciliation step exists.
Received ==
    IF op.kind = "pull" THEN op.arg.remote_path \in DOMAIN mfiles
    ELSE op.arg.local_path \in DOMAIN dfiles

\* C2: a reconciliation step that issues POST /sync/ack has, in that step
\* and before the ack, completed the write on the receiving side: the pull
\* direction fetched the file and wrote it to change.remote_path, the push
\* direction had PUT /sync/upload to project.local_path answered 200; no ack
\* is issued when the write did not succeed.
C2_AckAfterWrite ==
    (op.kind \in {"pull", "push"} /\ op.acked) =>
        /\ op.tried /\ op.ok /\ op.ok2
        /\ Received

\* C2 witness: the push pass has uploaded a mobile file and acked its mtime,
\* which is now the project's watermark.
C2_Witness ==
    /\ op.kind = "push" /\ op.acked /\ op.ok
    /\ op.arg.local_path \in DOMAIN dfiles
    /\ op.ts > op.arg.last_synced
    /\ \E i \in DOMAIN sync_projects :
          sync_projects[i].id = op.arg.id /\ Stamp(i) = op.ts

\* The step is the pull pass handling the first change left.
PullStep == pc = "pull" /\ op'.kind = "pull" /\ changes' # changes

\* The change c is still due: its project is in the table, not paused, with
\* a watermark below the reported mtime, which the desktop file still has.
StillPending(c) ==
    /\ c.local_path \in DOMAIN dfiles
    /\ dfiles[c.local_path] = c.new_modified
    /\ \E i \in DOMAIN sync_projects :
          /\ sync_projects[i].id = c.id
          /\ sync_projects[i].local_path = c.local_path
          /\ sync_projects[i].remote_path = c.remote_path
          /\ ~sync_projects[i].paused
          /\ Stamp(i) < c.new_modified

\* A pull that fails sends no ack.
C3_NoAck == (PullStep /\ ~(op'.ok /\ op'.ok2)) => ~op'.acked

\* From a failed pull until the next check, the watermark of the change's
\* project stays as it is.
C3_Unchanged ==
    (pc \in {"pull", "list", "push", "sleep", "drain", "poll", "check"}
     /\ Len(sync_projects') = Len(sync_projects)) =>
        \A c \in failed : \A i \in DOMAIN sync_projects :
            sync_projects[i].id = c.id =>
                sync_projects'[i].last_synced = sync_projects[i].last_synced

\* The next check reports the change again when the desktop file kept its
\* mtime.
C3_ReportedAgain ==
    (pc = "check" /\ op'.kind = "check" /\ op'.ok) =>
        \A c \in failed :
            (c.local_path \in DOMAIN dfiles /\ dfiles[c.local_path] = c.new_modified
             /\ \E i \in DOMAIN sync_projects : sync_projects[i].id = c.id) =>
                \E k \in DOMAIN changes' : changes'[k] = c

C3_FailedPull ==
    (PullStep /\ ~(op'.ok /\ op'.ok2)) =>
        /\ ~op'.acked
        /\ UNCHANGED <<sync_projects, stored, dfiles, dbytes>>
        /\ op'.arg \in failed'

\* A check that succeeds reports every failed change that is still due, and
\* the pull pass starts when it reported anything.
C3_DueReportedAgain ==
    (pc = "check" /\ op'.kind = "check" /\ op'.ok) =>
        /\ \A c \in failed :
              StillPending(c) => c \in failed' /\ \E k \in DOMAIN changes' : changes'[k] = c
        /\ changes' # << >> => pc' = "pull"

\* The pull pass moves only by attempting the pull of the first change left.
C3_Attempted ==
    (pc = "pull" /\ <<pc, changes>>' # <<pc, changes>>) =>
        /\ changes # << >>
        /\ op'.kind = "pull" /\ op'.tried
        /\ op'.arg = Head(changes)
        /\ changes' = Tail(changes)

PushDue ==
    /\ ~op.arg.paused
    /\ op.arg.remote_path \in DOMAIN mfiles
    /\ mfiles[op.arg.remote_path] > op.arg.last_synced

\* C6: the push pass uploads a project's mobile file and acks with its mtime
\* if and only if the project is not paused and the mtime is greater than the
\* last_synced fetched in the tick; otherwise it neither uploads nor acks.
C6_PushIff ==
    op.kind = "push" =>
        /\ (op.ok /\ op.acked) <=> PushDue
        /\ op.acked => op.ts = mfiles[op.arg.remote_path]
        /\ ~PushDue => ~op.tried /\ ~op.acked

\* C6 (amended): the push pass attempts the upload if and only if the project
\* is not paused and the mobile file's mtime is greater than the last_synced
\* fetched in the tick, and it acks, with that mtime, if and only if the
\* upload succeeded.
C6_PushWhenNewer ==
    op.kind = "push" =>
        /\ op.tried <=> PushDue
        /\ op.ok => op.tried
        /\ op.acked <=> op.ok
        /\ op.acked => op.ts = mfiles[op.arg.remote_path]

\* C6 witness: the push pass found a newer mobile file, and the upload failed.
C6_Witness ==
    /\ op.kind = "push"
    /\ PushDue
    /\ op.tried /\ ~op.ok /\ ~op.acked

CommandTypes == {cmd.type : cmd \in ClientCommand}

\* C10: every command the poll loop drains puts exactly one event on the
\* event channel, whatever the variant and whether or not its call succeeded.
C10_OneEventPerCommand ==
    (alive /\ op.kind \in CommandTypes) => op.sent = 1

\* ===================================================================
\* Claims about the drain, the poll and the end of poll_loop
\* ===================================================================
\* The Refresh arm has just run: it sent no request and no event, changed
\* nothing on either side, and left the poll due.
RefreshStep ==
    (op'.kind = "Refresh" /\ op' # op) =>
        /\ ~op'.tried /\ ~op'.acked /\ op'.sent = 0
        /\ poll_due'
        /\ pc' = pc
        /\ UNCHANGED <<svars, mfiles, events, changes, projects, failed, alive, fvars>>

\* The drain ends: try_recv found the channel empty.
DrainEnds == pc = "drain" /\ pc' \in {"poll", "sleep"}

\* C11, as stated: Refresh performs no HTTP call, it only sets last_poll back,
\* and the poll this triggers does not run in the iteration that drained the
\* Refresh but in the following one. (Stated for a Refresh that comes after
\* the poll of the start was received.)
C11_PollInFollowingIteration ==
    [][/\ RefreshStep
       /\ (client.connected /\ op.kind = "Refresh" /\ DrainEnds) => pc' = "sleep"]_vars

\* C11, amended: Refresh performs no HTTP call, it only sets last_poll back;
\* the poll stays due for the rest of the drain, and the iteration that
\* drained the Refresh polls as soon as its drain ends.
C11_PollInSameIteration ==
    [][/\ RefreshStep
       /\ (poll_due /\ pc = "drain" /\ pc' = "drain") => poll_due'
       /\ (poll_due /\ DrainEnds) => pc' = "poll"]_vars

\* C11 witness: after an earlier poll was received, a Refresh has run and the
\* poll is due again before the drain has ended.
C11_Witness ==
    /\ client.connected
    /\ op.kind = "Refresh"
    /\ pc = "drain"
    /\ poll_due

\* The events a command arm sends.
CommandEvents ==
    {"DownloadComplete", "Error", "BrowseUpdate", "PullComplete", "UploadComplete",
     "SyncProjectsUpdate", "SyncChangesAvailable"}

Types(evs) == [k \in DOMAIN evs |-> evs[k].type]

\* The positions of one iteration of poll_loop, in the order of its code.
Rank(at) ==
    CASE at = "drain" -> 0
      [] at = "poll" -> 1
      [] at = "check" -> 2
      [] at = "pull" -> 3
      [] at = "list" -> 4
      [] at = "push" -> 5
      [] at = "sleep" -> 6
      [] OTHER -> 7

\* A step of poll_loop has put events' on the empty channel.
Sends == events = << >> /\ events' # << >>

\* A position sends only its own kind of events, the poll a StatusUpdate
\* first; positions follow each other in the order of Rank until the sleep
\* that ends the iteration.
C12_SendOrder ==
    /\ Sends =>
          CASE pc = "drain" ->
                 Len(events') = 1 /\ events'[1].type \in CommandEvents
            [] pc = "poll" ->
                 Types(events') \in
                     {<<"StatusUpdate">>,
                      <<"StatusUpdate", "FilesUpdate">>,
                      <<"StatusUpdate", "PeersUpdate">>,
                      <<"StatusUpdate", "FilesUpdate", "PeersUpdate">>}
            [] pc \in {"pull", "push"} ->
                 Types(events') = <<"SyncPullComplete">>
            [] OTHER -> FALSE
    /\ (pc' # pc /\ pc # "sleep") => Rank(pc') > Rank(pc)
    /\ (pc' # pc /\ pc = "sleep") => pc' = "drain"

\* process_events has taken events off the channel.
Takes == alive' /\ Len(events') < Len(events)

\* process_events takes the events from the front of the channel, and the
\* client shows the newest of them on top of the older: the list of a
\* PeersUpdate as it was sent, also when the StatusUpdate sent before it
\* reported the connection lost, and the flag of the StatusUpdate.
C12_ReceiveOrder ==
    Takes =>
        LET n == Len(events) - Len(events')
        IN /\ events' = SubSeq(events, n + 1, Len(events))
           /\ events[n].type = "PeersUpdate" => client'.peers = events[n].arg
           /\ \A k \in 1..n :
                 events[k].type = "StatusUpdate" =>
                     client'.connected = events[k].arg.connected

PeerIds(peers) == [k \in DOMAIN peers |-> peers[k].id]

\* The poll has run with the event receiver in place.
PollStep == pc = "poll" /\ pc' = "check"

\* The poll sends exactly one StatusUpdate, whatever /status answered; after
\* a failed fetch it carries connected = false and nothing else.
C13_OneStatusUpdate ==
    PollStep =>
        /\ Cardinality({k \in DOMAIN events' : events'[k].type = "StatusUpdate"}) = 1
        /\ ~op'.ok =>
              events'[1] = ClientEvent("StatusUpdate", StatusUpdate(FALSE, None, None))
        /\ op'.ok => events'[1].arg.connected

\* process_events has taken a StatusUpdate with connected = false.
TakesDisconnect ==
    /\ Takes
    /\ \E k \in 1..(Len(events) - Len(events')) :
          events[k].type = "StatusUpdate" /\ ~events[k].arg.connected

\* process_events has taken a PeersUpdate.
TakesPeers ==
    /\ Takes
    /\ \E k \in 1..(Len(events) - Len(events')) : events[k].type = "PeersUpdate"

Cleared(c) ==
    /\ ~c.connected
    /\ c.last_sent = None
    /\ c.last_received_file = None

LoopStep ==
    \/ TryRecvEmpty
    \/ CmdBrowse
    \/ CmdRefresh
    \/ PeriodicPoll
    \/ SyncCheck
    \/ PullChange
    \/ FetchProjects
    \/ PushProject
    \/ Sleep

\* poll_loop returns.
LoopEnds == pc # "done" /\ pc' = "done"

\* C14: poll_loop never ends because a request or a file operation failed:
\* as long as the client exists it has not returned and has a next step to
\* take, whatever failed before, and it returns only once the client, with
\* its event receiver and command sender, has been dropped.
C14_EndsOnlyWhenDropped ==
    /\ [](alive => pc # "done")
    /\ []((alive /\ events = << >>) => ENABLED LoopStep)
    /\ [][LoopEnds => ~alive]_vars

\* C14 witness: the client exists, a pull has failed, the upload of the push
\* pass has failed as well, and poll_loop is at its sleep, about to iterate.
C14_Witness ==
    /\ alive
    /\ pc = "sleep"
    /\ failed # {}
    /\ op.kind = "push" /\ op.tried /\ ~op.ok

\* ===================================================================
\* Claims about the reconnect and the peer list
\* ===================================================================
\* The frame replaces the client.
Reconnects == Len(old_tasks') > Len(old_tasks)

\* The client the frame replaces: the one process_events has left.
OldClients ==
    {ProcessEvents([c |-> client, file |-> cached_peers], SubSeq(events, 1, n), disk).c :
        n \in 0..Len(events), disk \in {"ok", "untouched", "truncated"}}

C15_ReconnectStep ==
    Reconnects =>
        /\ \E old \in OldClients :
              /\ client'.peers = old.peers
              /\ client'.save_directory = old.save_directory
        /\ ~client'.connected
        /\ events' = << >>
        /\ pc' = "drain" /\ poll_due'
        /\ old_tasks' = Append(old_tasks, pc)

C15_OldTaskStep ==
    (Len(old_tasks') = Len(old_tasks) /\ old_tasks' # old_tasks) =>
        UNCHANGED <<events, client, pc>>

\* C15: a reconnect leaves a client with an empty event channel and a new
\* poll_loop about to poll, with the peers and the save_directory of the
\* client it replaces; the steps of the old poll_loop put no event into the
\* new client's channel and do not touch the new client, and the old
\* poll_loop returns in the end.
C15_Reconnect ==
    /\ [][C15_ReconnectStep /\ C15_OldTaskStep]_vars
    /\ []<>(\A k \in DOMAIN old_tasks : old_tasks[k] = "done")

\* C15 witness: a client with peers and a save_directory has been replaced,
\* the old poll_loop has returned, and the new one has polled.
C15_Witness ==
    /\ old_tasks # << >> /\ old_tasks[1] = "done"
    /\ client.peers # << >>
    /\ client.save_directory # None
    /\ op.kind = "poll" /\ events # << >>

\* C16: the client holds peers a successful /peers fetch gave it; a later
\* poll's status fetch fails (and so does its /peers fetch); once
\* process_events has taken that poll's events, the peer list has the length
\* it had and every entry is offline.
C16_DisconnectMarksOffline ==
    [][(TakesDisconnect /\ ~TakesPeers /\ client.peers # << >>) =>
          /\ Len(client'.peers) = Len(client.peers)
          /\ \A k \in DOMAIN client'.peers : ~client'.peers[k].online]_vars

\* The peers the client holds are other ones than before.
MembershipChanges == PeerIds(client'.peers) # PeerIds(client.peers)

\* C17: the entries of the client's peer list change only when
\* process_events takes a PeersUpdate, whose list is then the client's, or
\* when set_save_directory fills an empty list from the cache file: no
\* StatusUpdate, failed poll or reconnect empties the list or removes an
\* entry.
C17_MembershipChanges ==
    [][MembershipChanges =>
          \/ \E k \in DOMAIN events :
                /\ events[k].type = "PeersUpdate"
                /\ client'.peers = events[k].arg
                /\ renderer' # renderer \/ events' # events
          \/ /\ client.peers = << >>
             /\ client'.peers = load_cached_peers(cached_peers)
             /\ client'.save_directory # None
             /\ UNCHANGED <<events, renderer, old_tasks>>]_vars

\* C17 witness: the client has been told of a disconnect and has been
\* replaced by a reconnect, the new client's poll has failed as well, and it
\* still holds both peers, which the desktop no longer reports.
C17_Witness ==
    /\ old_tasks # << >>
    /\ ~client.connected
    /\ op.kind = "poll" /\ ~op.ok /\ events = << >>
    /\ Len(client.peers) = 2
    /\ \A k \in DOMAIN client.peers : ~client.peers[k].online
    /\ app.peers = << >>

\* set_save_directory has filled the peer list from the cache file.
LoadsCache ==
    /\ client.peers = << >>
    /\ client'.peers # << >>
    /\ client'.save_directory # None
    /\ UNCHANGED <<events, renderer, old_tasks>>

\* C18: the peers set_save_directory loads from the cache file are all
\* offline in the client's list, whatever flags the file holds.
C18_CachedPeersOffline ==
    [][LoadsCache => \A k \in DOMAIN client'.peers : ~client'.peers[k].online]_vars

\* ===================================================================
\* Claims about the notifications
\* ===================================================================
\* How many notifications with this title the queue holds.
Count(queue, title) == Cardinality({k \in DOMAIN queue : queue[k].title = title})

\* The frame has queued a notification with this title.
Enqueues(title) ==
    Count(renderer'.pending_notifications, title)
        > Count(renderer.pending_notifications, title)

\* C19: a frame queues a "File Ready" notification only when the client's
\* last_received_file is a name, differs from the value recorded by the
\* frame before, and that value was a name too; it queues one, for the
\* current name, and records the name. So the same status twice queues
\* nothing the second time, and the first file seen queues nothing.
C19_FileReadyOnlyOnChange ==
    [][Enqueues("File Ready") =>
          /\ client'.last_received_file # None
          /\ client'.last_received_file # renderer.last_known_received
          /\ renderer.last_known_received # None
          /\ renderer'.pending_notifications =
                Append(renderer.pending_notifications,
                       Notification("File Ready",
                           Format("Tap to download: ", client'.last_received_file[1])))
          /\ renderer'.last_known_received = client'.last_received_file]_vars

\* C19 witness: the frame has queued "File Ready" for f2, after f1.
C19_Witness ==
    /\ renderer.pending_notifications =
          <<Notification("File Ready", Format("Tap to download: ", "f2"))>>
    /\ renderer.last_known_received = Some("f2")
    /\ client.last_received_file = Some("f2")

\* The host has made this call (the same call with the same answer as the
\* last one leaves no trace).
Calls(fn) == call'.fn = fn /\ call' # call

\* The queue has lost a notification.
Removes ==
    \E k \in DOMAIN renderer.pending_notifications :
        Count(renderer'.pending_notifications, renderer.pending_notifications[k].title)
            < Count(renderer.pending_notifications, renderer.pending_notifications[k].title)

\* C20: consume_notification_body hands out the body of the front
\* notification and removes it, and only it, in that call; nothing else
\* removes a notification, has_pending_notification and notification_title
\* change nothing and report the front of the queue, so a notification is
\* handed out once and none is lost; and a title peeked from a queue that
\* held a notification is the title of the notification whose body the next
\* consume returns, whatever frames were rendered in between.
C20_ConsumedOnce ==
    [][LET queue == renderer.pending_notifications
       IN /\ Calls("consume_notification_body") =>
                IF queue = << >>
                THEN call'.value = NoBody /\ UNCHANGED renderer
                ELSE /\ call'.value = Head(queue).body
                     /\ renderer'.pending_notifications = Tail(queue)
          /\ (Removes \/ Len(renderer'.pending_notifications) < Len(queue)) =>
                /\ call' = Call("consume_notification_body", Head(queue).body)
                /\ renderer'.pending_notifications = Tail(queue)
          /\ Calls("has_pending_notification") =>
                /\ call'.value = (queue # << >>)
                /\ UNCHANGED renderer
          /\ Calls("notification_title") =>
                /\ call'.value = IF queue = << >> THEN "" ELSE Head(queue).title
                /\ UNCHANGED renderer
          /\ (call.fn = "notification_title" /\ call.value # ""
                 /\ Calls("consume_notification_body")) =>
                /\ queue # << >>
                /\ Head(queue).title = call.value
                /\ call'.value = Head(queue).body]_vars

\* C20 witness: two notifications were queued, the body of the first has
\* been handed out, and the second is at the front.
C20_Witness ==
    /\ call = Call("consume_notification_body", Format("Tap to download: ", "f2"))
    /\ renderer.pending_notifications =
          <<Notification("File Ready", Format("Tap to download: ", "f1"))>>

\* The notifications the frame has put at the back of the queue.
Appended ==
    SubSeq(renderer'.pending_notifications,
           Len(renderer.pending_notifications) + 1,
           Len(renderer'.pending_notifications))

\* The completions among the events the frame's process_events has taken, in
\* the order poll_loop sent them.
TakenCompletions ==
    LET IsCompletion(e) == e.type = "SyncPullComplete"
    IN SelectSeq(SubSeq(events, 1, Len(events) - Len(events')), IsCompletion)

\* C21: the notifications reach the host in the order in which poll_loop
\* sent the events they stand for: a frame puts the "File Synced"
\* notifications of the completions it has received at the back of the
\* queue, earliest completion first, also when it has received several, and
\* consume_notification_body takes from the front.
C21_FifoEndToEnd ==
    [][/\ Takes =>
             /\ SubSeq(renderer'.pending_notifications, 1,
                       Len(renderer.pending_notifications))
                  = renderer.pending_notifications
             /\ Appended = [k \in DOMAIN TakenCompletions |->
                              Notification("File Synced",
                                  Format("Updated: ", TakenCompletions[k].arg.filename))]
       /\ Calls("consume_notification_body") =>
             \/ renderer.pending_notifications = << >>
             \/ /\ call'.value = Head(renderer.pending_notifications).body
                /\ renderer'.pending_notifications = Tail(renderer.pending_notifications)]_vars

\* ===================================================================
\* Claims about the sent-file slot
\* ===================================================================
\* The slot says a send is going on.
Sending == app.last_sent # None /\ app.last_sent[1].sending

C22_Overwrites ==
    /\ \A name \in app'.tasks \ app.tasks :
          app'.last_sent = Some(SentFileInfo(name, FALSE, TRUE))
    /\ \A name \in app.tasks \ app'.tasks :
          /\ app'.last_sent # None
          /\ app'.last_sent[1].name = name
          /\ ~app'.last_sent[1].sending
    /\ app'.tasks = app.tasks => app'.last_sent = app.last_sent

\* C22: last_sent is one slot, empty or holding one SentFileInfo; the task
\* of each SendFile command overwrites it with its sending mark and, when
\* send_file has returned, with its final value, which has sending = false;
\* nothing else writes it; and a slot that says sending is in the end
\* overwritten by a final value, however the tasks interleave.
C22_SendingEnds ==
    /\ [](Len(app.last_sent) <= 1)
    /\ [][C22_Overwrites]_vars
    /\ (Sending ~> ~Sending)

\* C22 witness: two sends were going on at once; the first has stored its
\* final value, a success, while the second is still going on.
C22_Witness ==
    /\ app.tasks = {"s2"}
    /\ app.last_sent = Some(SentFileInfo("s1", TRUE, FALSE))

\* ===================================================================
\* Claims about the reconciliation of the projects
\* ===================================================================
\* The two file systems agree everywhere but at path.
SameBut(before, after, path) ==
    \A p \in (DOMAIN before \cup DOMAIN after) \ {path} :
        p \in DOMAIN before /\ p \in DOMAIN after /\ before[p] = after[p]

\* The command has created a project.
Creates ==
    /\ op'.kind = "CreateSyncProject" /\ op'.ok
    /\ Len(sync_projects') = Len(sync_projects) + 1

C23_Created ==
    Creates =>
        LET project == sync_projects'[Len(sync_projects')]
        IN /\ project.local_path = op'.arg.remote_path
           /\ project.remote_path = op'.arg.local_path
           /\ project.local_path \in DesktopPaths
           /\ project.remote_path \in MobilePaths

C23_Pull ==
    (op'.kind = "pull" /\ op' # op) =>
        /\ op'.ok => op'.arg.local_path \in DOMAIN dfiles
        /\ SameBut(mfiles, mfiles', op'.arg.remote_path)
        /\ op'.ok2 => op'.arg.remote_path \in DOMAIN mfiles'
        /\ dfiles' = dfiles

C23_Push ==
    (op'.kind = "push" /\ op' # op) =>
        /\ op'.tried => op'.arg.remote_path \in DOMAIN mfiles
        /\ SameBut(dfiles, dfiles', op'.arg.local_path)
        /\ op'.ok => op'.arg.local_path \in DOMAIN dfiles'
        /\ mfiles' = mfiles

\* C23: a CreateSyncProject command with the mobile path M as local_path and
\* the desktop path D as remote_path leaves a project with local_path = D
\* and remote_path = M in the desktop's table; from then on the pull pass
\* reads D on the desktop and writes M on the phone, the push pass reads M
\* on the phone and writes D on the desktop, and no desktop path is touched
\* on the phone nor a mobile path on the desktop.
C23_PathInversion ==
    /\ [](/\ DOMAIN mfiles \subseteq MobilePaths
          /\ DOMAIN dfiles \subseteq DesktopPaths
          /\ \A i \in DOMAIN sync_projects :
                /\ sync_projects[i].local_path \in DesktopPaths
                /\ sync_projects[i].remote_path \in MobilePaths)
    /\ [][C23_Created /\ C23_Pull /\ C23_Push]_vars

\* C23 witness: a project the command created (the stored one is paused)
\* has been pulled to the phone, edited there, and the push pass has
\* uploaded it.
C23_Witness ==
    /\ \E i \in DOMAIN sync_projects : ~sync_projects[i].paused
    /\ op.kind = "push" /\ op.ok
    /\ "m1" \in DOMAIN mfiles
    /\ "d1" \in DOMAIN dfiles

C24_PullPass ==
    (pc = "pull" /\ changes' # changes) =>
        /\ changes' = Tail(changes)
        /\ op'.kind = "pull" /\ op'.arg = Head(changes) /\ op'.tried
        /\ pc' = IF changes' = << >> THEN "list" ELSE "pull"

C24_PushPass ==
    (pc = "push" /\ projects' # projects) =>
        /\ projects' = Tail(projects)
        /\ op'.kind = "push" /\ op'.arg = Head(projects)
        /\ op'.tried = PushCond(Head(projects), mfiles)
        /\ pc' = IF projects' = << >> THEN "sleep" ELSE "push"

C24_Heads ==
    /\ (pc = "check" /\ pc' # "check") =>
          /\ op'.ok => changes' = SyncCheckBody(sync_projects, dfiles)
          /\ pc' = IF changes' = << >> THEN "list" ELSE "pull"
    /\ (pc = "list" /\ pc' # "list") =>
          /\ op'.ok => projects' = sync_projects
          /\ pc' = IF projects' = << >> THEN "sleep" ELSE "push"

\* C24: in a tick every reported change is visited by the pull pass and
\* every fetched project by the push pass, whatever failed for the ones
\* before it (the transfer, the local write, the upload, the ack): the pull
\* pass goes from each change to the next and then to the push pass, which
\* starts with every change visited, also after a failed sync check, and
\* goes from each project to the next, uploading for each one that is not
\* paused and has a newer file.
C24_FailureDoesNotBlock ==
    /\ [](/\ pc = "pull" => changes # << >>
          /\ pc \in {"list", "push", "sleep"} => changes = << >>
          /\ pc = "push" => projects # << >>
          /\ pc = "sleep" => projects = << >>)
    /\ [][C24_PullPass /\ C24_PushPass /\ C24_Heads]_vars

\* C24 witness: the pull of project a has failed and the pull of project b,
\* next in the same pass, has succeeded; the push pass is about to start.
C24_Witness ==
    /\ pc = "list"
    /\ \E change \in failed : change.id = "a"
    /\ op.kind = "pull" /\ op.arg.id = "b" /\ op.ok /\ op.ok2

\* ===================================================================
\* Claims about the handlers of the project table
\* ===================================================================
\* The service has handled this request.
Handles(request) ==
    /\ resp'.op = request
    /\ resp' # resp \/ sync_projects' # sync_projects \/ stored' # stored

\* The table holds a project with this id.
Known(id) == \E i \in DOMAIN sync_projects : sync_projects[i].id = id

\* C25: a DELETE /sync/projects/{id} for an id the table does not hold is
\* answered 404 and leaves the table in memory and the stored table as they
\* were.
C25_UnknownDelete ==
    [][(Handles("delete") /\ ~Known(resp'.id)) =>
          /\ resp'.status = 404
          /\ sync_projects' = sync_projects
          /\ stored' = stored]_vars

\* C25 witness: the delete of an id that is not among the two projects of
\* the table has been answered 404.
C25_Witness ==
    /\ resp.op = "delete" /\ resp.status = 404
    /\ Len(sync_projects) = 2
    /\ ~Known(resp.id)

\* The first project with this id.
FirstWith(id) ==
    CHOOSE i \in DOMAIN sync_projects :
        /\ sync_projects[i].id = id
        /\ \A j \in 1..(i - 1) : sync_projects[j].id # id

\* C26: a POST /sync/ack for an id the table holds is answered 200 and
\* changes the table in one place, the last_synced of the project with that
\* id, which is then the timestamp of the request; for an id the table does
\* not hold it is answered 404 and leaves the table in memory and the
\* stored table as they were.
C26_Ack ==
    [][Handles("ack") =>
          IF Known(resp'.id)
          THEN /\ resp'.status = 200
               /\ sync_projects' =
                     [i \in DOMAIN sync_projects |->
                        IF i = FirstWith(resp'.id)
                        THEN [sync_projects[i] EXCEPT !.last_synced = resp'.ts]
                        ELSE sync_projects[i]]
          ELSE /\ resp'.status = 404
               /\ sync_projects' = sync_projects
               /\ stored' = stored]_vars

\* C26 witness: of two projects with different ids and equal watermarks one
\* has been acked with another timestamp.
C26_Witness ==
    /\ resp.op = "ack" /\ resp.status = 200
    /\ Len(sync_projects) = 2
    /\ sync_projects[1].id # sync_projects[2].id
    /\ sync_projects[FirstWith(resp.id)].last_synced = resp.ts
    /\ sync_projects[1].last_synced # sync_projects[2].last_synced

\* A handler inside a filesystem call, and one stopped at a lock another holds.
InIo(r) == handlers[r].at \in IoSteps
Blocked(r) ==
    /\ handlers[r].at = "start"
    /\ handlers[r].handler \in {"sync_create_project", "sync_delete_project", "sync_ack",
                                "sync_list_projects", "sync_check"}
    /\ ~Free("sync_projects")

\* C27: no handler holds a table mutex while performing I/O: whenever a
\* handler is in a filesystem call (persisting the project table, reading
\* file metadata, writing a file) it holds none of the locks, so no other
\* request waits for a lock during that call.
C27_NoLockAcrossIo ==
    \A r \in Requests :
        InIo(r) => /\ handlers[r].holds = {}
                   /\ \A q \in Requests : ~Blocked(q)

\* C28: round trip. A successful PUT /sync/upload?path=X with body B followed
\* by GET /pull?path=X, no write to X in between, returns exactly B with 200;
\* requests that only read leave every file as it is.
C28_RoundTrip ==
    /\ [][(/\ resp.op = "upload"
           /\ resp.status = 200
           /\ resp'.op = "pull"
           /\ resp'.id = resp.id) =>
              (resp'.status = 200 /\ resp'.body = resp.body)]_vars
    /\ [][resp'.op \in {"pull", "list"} => UNCHANGED <<dfiles, dbytes>>]_vars

\* A pull has returned the two bytes an upload wrote.
C28_Witness ==
    /\ resp.op = "pull"
    /\ resp.status = 200
    /\ resp.body = <<1, 2>>
    /\ dbytes[resp.id] = <<1, 2>>

\* The lines of a text that end with a line feed, in order.
RECURSIVE Lines(_)
Lines(text) ==
    LET pos == Find(text) IN
    IF pos = 0 THEN << >>
    ELSE <<SubSeq(text, 1, pos - 1)>> \o Lines(SubSeq(text, pos + 1, Len(text)))

WellFormed(line) == line # << >> /\ Parses(line)

\* The events of the well-formed lines among the bytes that arrived.
Notified(bytes) ==
    LET lines == SelectSeq(Lines(from_utf8_lossy(bytes)), WellFormed)
    IN [i \in DOMAIN lines |-> FileReceived(lines[i])]

Observed == client'.last_sent

\* C30: a frame queues a "File Sent" notification only when the last_sent
\* it observes has succeeded, its name differs from the succeeded name
\* recorded last, and a succeeded name had been recorded; it queues one, for
\* that name, and records the name. While the observed last_sent has not
\* succeeded nothing is queued and nothing is recorded, and observing the
\* recorded name again queues nothing.
C30_FileSentGating ==
    /\ [][Enqueues("File Sent") =>
            /\ Observed # None
            /\ Observed[1].succeeded
            /\ Some(Observed[1].name) # renderer.last_known_sent_name
            /\ renderer.last_known_sent_name # None
            /\ renderer'.pending_notifications =
                  Append(renderer.pending_notifications,
                         Notification("File Sent",
                                      Format("Desktop sent: ", Observed[1].name)))
            /\ renderer'.last_known_sent_name = Some(Observed[1].name)]_vars
    /\ [][(Observed # None /\ ~Observed[1].succeeded) =>
            /\ ~Enqueues("File Sent")
            /\ renderer'.last_known_sent_name = renderer.last_known_sent_name]_vars
    /\ [][(Observed # None /\ Some(Observed[1].name) = renderer.last_known_sent_name) =>
            ~Enqueues("File Sent")]_vars

\* C30 witness: s1 was recorded, then the frame that saw s2 succeeded has
\* queued "File Sent" for it.
C30_Witness ==
    /\ renderer.pending_notifications =
          <<Notification("File Sent", Format("Desktop sent: ", "s2"))>>
    /\ renderer.last_known_sent_name = Some("s2")
    /\ client.last_sent = Some(SentFileInfo("s2", TRUE, FALSE))

\* ===================================================================
\* Claims about reconciliation over many ticks
\* ===================================================================
\* The step has pulled or uploaded the project's file.
Transfers == op.kind \in {"pull", "push"} /\ op.tried

\* C31: after one desktop edit of a synced project and no further edit,
\* with nothing failing, the loop comes to a state from which it never
\* pulls, uploads or acks again.
C31_Quiescence == <>[]~Transfers

\* The step is one of the pull pass, or one of the push pass.
PullPassStep == op'.kind = "pull" /\ changes' # changes
PushPassStep == op'.kind = "push" /\ projects' # projects
PassStep == PullPassStep \/ PushPassStep

\* The mobile file named by a change holds an edit the desktop has not got:
\* its mtime is later than the project's last_synced.
Unpushed(change) ==
    /\ change.remote_path \in DOMAIN mfiles
    /\ \E i \in DOMAIN sync_projects :
          /\ sync_projects[i].id = change.id
          /\ mfiles[change.remote_path] > sync_projects[i].last_synced

\* C32: the pull pass does not write pulled desktop content over a mobile
\* file whose mtime is later than last_synced, that is before the push pass
\* has uploaded it.
C32_NoOverwrite ==
    [][(PullPassStep /\ op'.ok2) => ~Unpushed(op'.arg)]_vars

\* The step has sent a SyncPullComplete for the project it was about.
Completes == PassStep /\ op'.sent > 0

\* The step's ack reached the service and advanced the project's last_synced
\* to the time stamp it carried.
Advances ==
    \E i \in DOMAIN sync_projects :
        /\ sync_projects[i].id = op'.arg.id
        /\ i \in DOMAIN sync_projects'
        /\ sync_projects'[i].last_synced = op'.ts
        /\ sync_projects[i].last_synced < op'.ts

\* C33: a SyncPullComplete is sent for a project only by a step whose ack
\* advanced the project's last_synced on the service; a step whose ack
\* request fails sends none.
C33_CompleteOnlyIfAcked == [][Completes => Advances]_vars

\* A pull or push step whose ack was applied by the service.
AckApplied ==
    /\ PassStep
    /\ op'.acked
    /\ sync_projects' # sync_projects

\* C34: every ack of the two passes that the service applies carries a time
\* stamp later than the last_synced it replaces, and no pass step lowers
\* the last_synced of any project.
C34_AcksAdvance ==
    [][PassStep =>
          /\ DOMAIN sync_projects' = DOMAIN sync_projects
          /\ \A i \in DOMAIN sync_projects :
                sync_projects'[i].last_synced >= sync_projects[i].last_synced
          /\ AckApplied =>
                op'.ts > sync_projects[FindProject(sync_projects, op'.arg.id)].last_synced]_vars

\* ------------------------------------------------------------------------
\* Claims about the poll loops, the send slot, the peer list, the ids and
\* the received-file notification

\* What the poll_loop of a replaced client asks the service for when it
\* leaves position at: the status at "poll" (http_fetch_status, before the
\* send that fails), the changes at "check" (http_sync_check) and the
\* projects at "list" (http_fetch_sync_projects); try_recv at "drain" and
\* the sleep ask for nothing.
OldTaskRequests(at) == at \in {"poll", "check", "list"}

\* C35: the poll_loop of a replaced client issues no further HTTP request.
C35_OldLoopSilent ==
    [][\A k \in DOMAIN old_tasks :
          (k \in DOMAIN old_tasks' /\ old_tasks'[k] # old_tasks[k])
             => ~OldTaskRequests(old_tasks[k])]_vars

\* C36: while a SendFile task is in flight the SentFileInfo slot is marked
\* as sending.
C36_SendingWhileInFlight ==
    app.tasks # {} => (app.last_sent # None /\ app.last_sent[1].sending)

\* C37: a client that is not connected holds no peer marked online.
C37_DisconnectedAllOffline ==
    ~client.connected =>
        \A i \in DOMAIN client.peers : ~client.peers[i].online

\* C38: the projects of the sync-project table have pairwise distinct ids.
C38_DistinctIds ==
    \A i, j \in DOMAIN sync_projects :
        i # j => sync_projects[i].id # sync_projects[j].id

\* The "File Ready" notifications the queue holds for this name.
FileReadyFor(name) ==
    {k \in DOMAIN renderer.pending_notifications :
        renderer.pending_notifications[k] =
            Notification("File Ready", Format("Tap to download: ", name))}

\* C39: once the renderer has recorded the desktop's new received file f2,
\* the file after f1, it has queued one "File Ready" notification for it,
\* whatever polls failed in between.
C39_SecondFileNotified ==
    renderer.last_known_received = Some("f2") =>
        Cardinality(FileReadyFor("f2")) = 1
====
